---- MODULE Spec2Model ----
(***************************************************************************)
(* The evaluator row-locking protocol of src/bsc.py: acquire_lock,         *)
(* release_lock and update_evaluator_vote over the Google Sheet            *)
(* "MD Awards Voting" with the local CSV file as fallback, driven by the   *)
(* buttons of the evaluator workspace (Detailed Review tab) and by         *)
(* log_submission.                                                         *)
(*                                                                         *)
(* Representation.                                                         *)
(*   - A text cell is a TLA+ string, "" the empty cell.                    *)
(*   - An ISO-8601 cell (Timestamp/Date, Lock Expiry) is <<n>>, the        *)
(*     isoformat() of instant n, and <<>> when the cell is empty.          *)
(*   - Committee Votes is the sequence of the lexemes of its string:       *)
(*     "e1:Winner;e2:Reject" is <<"e1",":","Winner",";","e2",":","Reject">>*)
(*   - A Python optional argument is <<>> (None) or <<v>>.                 *)
(*   - Every gspread call is one step and may raise; the except branch of  *)
(*     the function (its CSV fallback) then runs as one step.              *)
(*   - faults is the number of gspread calls of the lock functions that    *)
(*     will still raise (network errors, quota, an unavailable client).    *)
(*   - pc[e] is the position of evaluator e's session: the gspread call it *)
(*     is about to make, or the message its page shows once the script has *)
(*     run to its end.                                                     *)
(*   - form is the employee's page: the submission form and the position  *)
(*     of its post-submission logic (upload, email, log_submission).       *)
(*   - A cell read by pd.read_csv is None (NaN) or Some(text).             *)
(***************************************************************************)
EXTENDS Integers, Sequences, FiniteSets, TLC

VARIABLES clock, nTokens, faults, sheet, headers, csv, session, pc, loc, form, call

vars == <<clock, nTokens, faults, sheet, headers, csv, session, pc, loc, form, call>>

(* ---------------------------------------------------------------- bounds *)
MaxTicks == 2
MaxTokens == 2
MaxSubmissions == 2
MaxFailures == 1

(* ------------------------------------------------------ program constants *)
timeout_seconds == 120

(* the clock advances by half a lock lifetime *)
TickSeconds == timeout_seconds \div 2

Evaluators == {"e1", "e2"}
CandidateNames == {"A"}
Comments == {"ok"}
Stage1Choices == {"Recommend for Finals", "Reject"}
FinalVoteChoices == {"Winner", "Reject"}
LegacyVoteChoices == {"Shortlist"}
LockHeaders == {"Lock Token", "Lock Expiry", "Lock Holder"}

None == <<>>
Some(v) == <<v>>

Min(S) == CHOOSE x \in S : \A y \in S : x <= y
Max(S) == CHOOSE x \in S : \A y \in S : x >= y

(* uuid.uuid4(): the n-th draw, different from every other draw *)
uuid4(n) == "u" \o ToString(n)

(* datetime.isoformat() / datetime.fromisoformat() *)
isoformat(n) == <<n>>
Parsable(s) == Len(s) = 1
fromisoformat(s) == s[1]

(* -------------------------------------------------------------- records *)
Perspectives ==
  {"Financial", "Customer", "Internal Business Processes", "Learning & Growth"}

(* str.strip(): the text without its leading and trailing whitespace *)
Whitespace == {" ", "\t", "\n"}

RECURSIVE lstrip(_)
lstrip(s) == IF s # "" /\ Head(s) \in Whitespace THEN lstrip(Tail(s)) ELSE s

RECURSIVE rstrip(_)
rstrip(s) ==
  IF s # "" /\ SubSeq(s, Len(s), Len(s)) \in Whitespace
  THEN rstrip(SubSeq(s, 1, Len(s) - 1)) ELSE s

strip(s) == rstrip(lstrip(s))

(* "x" * n *)
RECURSIVE Repeat(_, _)
Repeat(s, n) ==
  IF n = 0 THEN "" ELSE IF n = 1 THEN s
  ELSE Repeat(s, n \div 2) \o Repeat(s, n - n \div 2)

(* variant: the length bonus is given from 150 characters on *)
evaluate_perspective_from_150(action_text, num_files) ==
  LET text == strip(action_text)
      pts == (IF text # "" THEN 10 ELSE 0) + (IF Len(text) >= 150 THEN 10 ELSE 0)
               + (IF num_files >= 2 THEN 5 ELSE 0)
  IN Min({25, pts})

(* _evaluate_perspective(action_text, files), num_files = len(files): 10 points for a
   text that is not empty once stripped, 10 when it is longer than 150 characters,
   5 for two or more files; int(min(25, pts)) *)
evaluate_perspective(action_text, num_files) ==
  LET text == strip(action_text)
      pts == (IF text # "" THEN 10 ELSE 0) + (IF Len(text) > 150 THEN 10 ELSE 0)
               + (IF num_files >= 2 THEN 5 ELSE 0)
  IN Min({25, pts})

(* variant: the last perspective is left out of the total *)
Sum3(f) == f["Financial"] + f["Customer"] + f["Internal Business Processes"]

(* sum(score_breakdown.values()) *)
Sum4(f) ==
  f["Financial"] + f["Customer"] + f["Internal Business Processes"] + f["Learning & Growth"]

(* the action texts of an ordinary submission, and its scores (no files) *)
PlainActions == [p \in Perspectives |-> "Cut costs"]
ScoresOf(actions_dict) == [p \in Perspectives |-> evaluate_perspective(actions_dict[p], 0)]

(* score_breakdown[p] = int(_evaluate_perspective(action_text, files)) with
   action_text = (data.get("action") or "").strip() *)
score_breakdown_of(actions_dict, files_dict) ==
  [p \in Perspectives |-> evaluate_perspective(strip(actions_dict[p]), files_dict[p])]

NoFiles == [p \in Perspectives |-> 0]

(* the row log_submission writes: Scores[p] is the cell "<p> Score", Actions[p] the
   cell "<p> Action", TotalScore = round(sum(score_breakdown.values()), 1) *)
NewRecord(name, ts, score_breakdown, actions_dict) ==
  [Name |-> name, Timestamp |-> ts,
   TotalScore |-> Sum4(score_breakdown),
   Scores |-> score_breakdown, Actions |-> actions_dict,
   EvaluatorVote |-> "", EvaluatorComment |-> "",
   Stage1Recommendation |-> "", Stage1Comment |-> "",
   CommitteeVotes |-> <<>>, CurrentStatus |-> "",
   LockToken |-> "", LockExpiry |-> <<>>, LockHolder |-> ""]

NewRow(name, ts) == NewRecord(name, ts, ScoresOf(PlainActions), PlainActions)

NoCsv == [exists |-> FALSE, cols |-> {}, rows |-> <<>>]

NoSession == [lock_token |-> "", lock_expiry |-> <<>>]

NoArgs ==
  [vote |-> None, comment |-> None, stage1_rec |-> None, stage1_comment |-> None,
   committee_vote |-> None, evaluator_name |-> None, current_status |-> None]

NoLoc ==
  [button |-> "", name |-> "", timestamp |-> <<>>, lock_token |-> "",
   args |-> NoArgs, row_idx |-> 0, cols |-> {}, current_token |-> "",
   token |-> "", expiry_iso |-> <<>>, existing |-> <<>>, record |-> <<>>]

(* the employee's page and what its submissions have done so far: pc is "form" before
   the first submit, the external call the script run is about to make, or "shown"
   once the run has ended; uploaded_files_meta is None while the name is unbound;
   folders and emails count the Drive folders created and the emails sent;
   postmark_token is the configured secret ("" when missing) and deadline the value
   of the setting submission_deadline (None when NULL) *)
NoForm ==
  [pc |-> "form", runs |-> 0, first_name |-> "", last_name |-> "",
   actions |-> PlainActions, files |-> NoFiles,
   folder_url |-> "", uploaded_files_meta |-> None, upload_error |-> "",
   messages |-> {}, status |-> "", folders |-> 0, emails |-> 0,
   postmark_token |-> "pm", deadline |-> None]

(* a call of a scoring function: its arguments (num_files = len(files)) and, once it
   has returned, its result *)
NoCall ==
  [fn |-> "", action_text |-> "", num_files |-> 0, keywords |-> <<>>, result |-> None]

(* what a page shows when the script has run to its end *)
IdlePcs ==
  {"idle", "lock_acquired", "acquire_failed", "released", "release_failed",
   "submitted_released", "submitted", "submit_failed", "need_lock", "need_choice",
   "updated"}

Ready(e) == pc[e] \in IdlePcs

(* the script run has ended: the model keeps the button that was pressed, and of the
   script's variables selected and timestamp, the record key the page was rendered for *)
EndOfRun(e) ==
  [NoLoc EXCEPT !.button = loc[e].button, !.name = loc[e].name,
                !.timestamp = loc[e].timestamp]

(* the except branch of a lock function is entered: because its row lookup raised
   (row_not_found), or because the gspread call itself raised, which faults more
   calls will do *)
Raises(row_not_found) ==
  /\ row_not_found \/ faults > 0
  /\ faults' = IF row_not_found THEN faults ELSE faults - 1

(* ------------------------------------------------------------ row lookup *)
ExactMatches(records, name, timestamp) ==
  {i \in 1..Len(records) :
     records[i].Name = name /\ timestamp # <<>> /\ records[i].Timestamp = timestamp}

NameMatches(records, name) == {i \in 1..Len(records) : records[i].Name = name}

(* the sheet lookup of the three functions: exact timestamp, else latest by name;
   0 stands for "Could not locate submission row for candidate" *)
find_row(records, name, timestamp) ==
  IF ExactMatches(records, name, timestamp) # {}
  THEN Min(ExactMatches(records, name, timestamp))
  ELSE IF NameMatches(records, name) # {}
       THEN Max(NameMatches(records, name))
       ELSE 0

(* the CSV mask: df["Name"] == name, and df["Date"] == timestamp when given *)
csv_mask(rows, name, timestamp) ==
  {i \in 1..Len(rows) :
     rows[i].Name = name /\ (timestamp # <<>> => rows[i].Timestamp = timestamp)}

(* pd.read_csv with its default na_values: a text cell holding one of these strings
   (the empty cell among them) is read as NaN, here None; any other text is read as
   it stands, here Some(text). (A column whose every cell is a number is read as
   numbers; no action text of the model is one.) *)
NaValues ==
  {"", "#N/A", "#N/A N/A", "#NA", "-1.#IND", "-1.#QNAN", "-NaN", "-nan", "1.#IND",
   "1.#QNAN", "<NA>", "N/A", "NA", "NULL", "NaN", "None", "n/a", "nan", "null"}

read_csv_text(v) == IF v \in NaValues THEN None ELSE Some(v)

(* DataFrame.to_csv: NaN is written as the empty cell *)
to_csv_text(x) == IF x = None THEN "" ELSE x[1]

(* df = pd.read_csv(CSV_LOG_PATH); ...; df.to_csv(CSV_LOG_PATH, index=False): every
   cell the function did not assign is written back as pandas read it *)
to_csv(c) ==
  [c EXCEPT !.rows = [i \in 1..Len(c.rows) |->
     [c.rows[i] EXCEPT !.Actions =
        [p \in Perspectives |-> to_csv_text(read_csv_text(c.rows[i].Actions[p]))]]]]

(* str() of a text cell of pd.read_csv: a column missing from the file was just
   added as "", an empty cell of the file reads back as NaN and prints "nan" *)
csv_str(c, col, v) ==
  IF col \notin c.cols THEN "" ELSE IF v = "" THEN "nan" ELSE v

(* str() of the Lock Expiry cell of pd.read_csv: "" for a column just added, "nan"
   for an empty cell of the file (both <<>>: neither parses), else the ISO string *)
csv_expiry_str(c, v) == IF "Lock Expiry" \notin c.cols THEN <<>> ELSE v

(* str(df.at[idx, "Committee Votes"] or ""): NaN is truthy and prints "nan" *)
csv_existing_votes(v) == IF v = <<>> THEN <<"nan">> ELSE v

(* The Committee Votes string is kept as its lexemes: the separators ";" and ":"
   and the runs of other characters between them. lexemes(s) are those of a string s,
   so a display name with a separator in it takes several *)
RECURSIVE lexemes(_)
lexemes(s) ==
  LET seps == {k \in 1..Len(s) : SubSeq(s, k, k) \in {";", ":"}}
  IN IF s = "" THEN <<>>
     ELSE IF seps = {} THEN <<s>>
     ELSE (IF Min(seps) > 1 THEN <<SubSeq(s, 1, Min(seps) - 1)>> ELSE <<>>)
          \o <<SubSeq(s, Min(seps), Min(seps))>>
          \o lexemes(SubSeq(s, Min(seps) + 1, Len(s)))

(* existing + (";" if existing else "") + f"{evaluator_name or 'Evaluator'}:{vote}" *)
new_entry(evaluator_name, committee_vote) ==
  lexemes(IF evaluator_name = None \/ evaluator_name = Some("") THEN "Evaluator"
          ELSE evaluator_name[1])
    \o <<":", committee_vote>>

append_vote(existing, evaluator_name, committee_vote) ==
  existing \o (IF existing # <<>> THEN <<";">> ELSE <<>>)
           \o new_entry(evaluator_name, committee_vote)

(* ------------------------------------------------------- read_records / page *)
(* df of read_records(): the sheet's records (keyed by the sheet's headers, which
   name the instant "Timestamp"), None when there are none; the CSV (which names it
   "Date") when the sheet call raised *)
read_records(remote_ok) ==
  IF remote_ok THEN [date_column |-> FALSE, rows |-> sheet]
  ELSE IF csv.exists THEN [date_column |-> TRUE, rows |-> csv.rows]
  ELSE [date_column |-> FALSE, rows |-> <<>>]

(* the evaluator workspace gets to its buttons: "if df is None or df.empty" shows
   "No submissions found yet", and display_df["Date"] / sort_values("Date") raise
   KeyError on a frame without a Date column, which ends the script run *)
workspace_renders(df) == df.rows # <<>> /\ df.date_column

(* rec = df[df["Name"] == selected].sort_values("Date", ascending=False).iloc[0] *)
latest_rec(df, selected) ==
  LET S == NameMatches(df.rows, selected)
  IN df.rows[CHOOSE i \in S : \A j \in S : df.rows[j].Timestamp[1] <= df.rows[i].Timestamp[1]]

(* timestamp = rec.get("Timestamp") or rec.get("Date") *)
page_timestamp(df, selected) == latest_rec(df, selected).Timestamp

(* ------------------------------------------------------------------ Init *)
Start ==
  /\ clock = 0
  /\ nTokens = 0
  /\ sheet = <<>>
  /\ headers = {}
  /\ csv = NoCsv
  /\ session = [e \in Evaluators |-> [n \in CandidateNames |-> NoSession]]
  /\ pc = [e \in Evaluators |-> "idle"]
  /\ loc = [e \in Evaluators |-> NoLoc]

(* the sheet is reachable whenever a lock function calls it *)
Init == Start /\ faults = 0 /\ form = NoForm /\ call = NoCall

(* up to MaxFailures of the lock functions' gspread calls raise *)
InitFaulty == Start /\ faults = MaxFailures /\ form = NoForm /\ call = NoCall

(* time passes *)
Tick ==
  /\ clock < MaxTicks * TickSeconds
  /\ clock' = clock + TickSeconds
  /\ UNCHANGED <<nTokens, faults, sheet, headers, csv, session, pc, loc, form, call>>

(* the submissions logged so far; timestamp = datetime.now().isoformat() is later
   than that of every earlier submission *)
nSubmitted == Len(sheet) + Len(csv.rows)

(* log_submission: append to the sheet, or, when the sheet call raised, read the CSV,
   concat the record and write the frame back; when that raised too (csv_ok is
   false) nothing is stored, and the function returns as in the other cases *)
log_submission(name, score_breakdown, actions_dict, remote_ok, csv_ok) ==
  /\ nSubmitted < MaxSubmissions
  /\ LET row == NewRecord(name, isoformat(nSubmitted + 1), score_breakdown, actions_dict)
     IN IF remote_ok
        THEN /\ sheet' = Append(sheet, row)
             /\ csv' = csv
        ELSE IF csv_ok
        THEN /\ csv' = [to_csv(csv) EXCEPT !.exists = TRUE, !.rows = Append(@, row)]
             /\ sheet' = sheet
        ELSE /\ csv' = csv
             /\ sheet' = sheet

(* a submission is logged; the local file can be written *)
Submit ==
  /\ \E name \in CandidateNames, remote_ok \in BOOLEAN :
       log_submission(name, ScoresOf(PlainActions), PlainActions, remote_ok, TRUE)
  /\ UNCHANGED <<clock, nTokens, faults, headers, session, pc, loc, form, call>>

(* ========================================================== acquire_lock *)
AcqPreDrawPcs == {"acq_open", "acq_hdr", "acq_read_token", "acq_read_expiry"}
AcqRemotePcs ==
  AcqPreDrawPcs \cup {"acq_write_token", "acq_write_expiry", "acq_write_holder"}

InFlightAcquires == Cardinality({e \in Evaluators : pc[e] \in AcqPreDrawPcs})

(* "if current_token:" ... fromisoformat ... "exp > datetime.utcnow()": the row is
   refused when it carries a token whose expiry is in the future or does not parse *)
(* variant: a lock whose expiry cell cannot be parsed counts as free *)
is_locked_lenient(current_token, current_expiry, t) ==
  /\ current_token # ""
  /\ Parsable(current_expiry)
  /\ fromisoformat(current_expiry) > t

(* variant: a stored token locks the row whatever its expiry *)
is_locked_no_expiry(current_token, current_expiry, t) ==
  current_token # ""

is_locked(current_token, current_expiry, t) ==
  /\ current_token # ""
  /\ (~Parsable(current_expiry) \/ fromisoformat(current_expiry) > t)

(* the CSV fallback of acquire_lock *)
acquire_lock_csv(c, name, timestamp, holder, token, t) ==
  LET mask == csv_mask(c.rows, name, timestamp)
      idx == Min(mask)
      failed == [csv |-> c, token |-> "", expiry_iso |-> <<>>]
  IN IF ~c.exists \/ mask = {} THEN failed
     ELSE IF is_locked(csv_str(c, "Lock Token", c.rows[idx].LockToken),
                       csv_expiry_str(c, c.rows[idx].LockExpiry), t)
     THEN failed
     ELSE [csv |-> to_csv([c EXCEPT !.cols = c.cols \cup LockHeaders,
                                    !.rows[idx].LockToken = token,
                                    !.rows[idx].LockExpiry = isoformat(t + timeout_seconds),
                                    !.rows[idx].LockHolder = holder]),
           token |-> token, expiry_iso |-> isoformat(t + timeout_seconds)]

(* the Acquire Edit Lock button after acquire_lock returned (token, expiry) *)
AcquireReturn(e, token, expiry_iso) ==
  /\ loc' = [loc EXCEPT ![e] = EndOfRun(e)]
  /\ IF token # ""
     THEN /\ session' = [session EXCEPT ![e][loc[e].name] =
                           [lock_token |-> token, lock_expiry |-> expiry_iso]]
          /\ pc' = [pc EXCEPT ![e] = "lock_acquired"]
     ELSE /\ session' = session
          /\ pc' = [pc EXCEPT ![e] = "acquire_failed"]

(* the page is run again with the Acquire Edit Lock button pressed *)
PressAcquire(e) ==
  /\ Ready(e)
  /\ nTokens + InFlightAcquires < MaxTokens
  /\ \E selected \in CandidateNames, remote_ok \in BOOLEAN :
       LET df == read_records(remote_ok)
       IN /\ workspace_renders(df)
          /\ NameMatches(df.rows, selected) # {}
          /\ session[e][selected].lock_token = ""
          /\ loc' = [loc EXCEPT ![e] =
                       [NoLoc EXCEPT !.button = "acquire", !.name = selected,
                                     !.timestamp = page_timestamp(df, selected)]]
  /\ pc' = [pc EXCEPT ![e] = "acq_open"]
  /\ UNCHANGED <<clock, nTokens, faults, sheet, headers, csv, session, form, call>>

(* row_values(1), get_all_records(), the row lookup and the header scan *)
AcqOpen(e) ==
  /\ pc[e] = "acq_open"
  /\ find_row(sheet, loc[e].name, loc[e].timestamp) # 0
  /\ loc' = [loc EXCEPT ![e].row_idx = find_row(sheet, loc[e].name, loc[e].timestamp),
                        ![e].cols = headers]
  /\ pc' = [pc EXCEPT ![e] = IF LockHeaders \subseteq headers
                             THEN "acq_read_token" ELSE "acq_hdr"]
  /\ UNCHANGED <<clock, nTokens, faults, sheet, headers, csv, session, form, call>>

(* one update_cell(1, col, header) for the first lock header the scan missed *)
AcqHdr(e) ==
  /\ pc[e] = "acq_hdr"
  /\ LET h == IF "Lock Token" \notin loc[e].cols THEN "Lock Token"
              ELSE IF "Lock Expiry" \notin loc[e].cols THEN "Lock Expiry"
              ELSE "Lock Holder"
     IN /\ headers' = headers \cup {h}
        /\ loc' = [loc EXCEPT ![e].cols = loc[e].cols \cup {h}]
        /\ pc' = [pc EXCEPT ![e] = IF LockHeaders \subseteq (loc[e].cols \cup {h})
                                   THEN "acq_read_token" ELSE "acq_hdr"]
  /\ UNCHANGED <<clock, nTokens, faults, sheet, csv, session, form, call>>

(* current_token = worksheet.cell(row_idx, lock_col).value or "" *)
AcqReadToken(e) ==
  /\ pc[e] = "acq_read_token"
  /\ loc' = [loc EXCEPT ![e].current_token = sheet[loc[e].row_idx].LockToken]
  /\ pc' = [pc EXCEPT ![e] = "acq_read_expiry"]
  /\ UNCHANGED <<clock, nTokens, faults, sheet, headers, csv, session, form, call>>

(* current_expiry = worksheet.cell(...), the lock check, then uuid4() and the expiry *)
AcqReadExpiry(e) ==
  /\ pc[e] = "acq_read_expiry"
  /\ IF is_locked(loc[e].current_token, sheet[loc[e].row_idx].LockExpiry, clock)
     THEN /\ AcquireReturn(e, "", <<>>)
          /\ nTokens' = nTokens
     ELSE /\ nTokens' = nTokens + 1
          /\ loc' = [loc EXCEPT ![e].token = uuid4(nTokens + 1),
                                ![e].expiry_iso = isoformat(clock + timeout_seconds)]
          /\ pc' = [pc EXCEPT ![e] = "acq_write_token"]
          /\ session' = session
  /\ UNCHANGED <<clock, faults, sheet, headers, csv, form, call>>

AcqWriteToken(e) ==
  /\ pc[e] = "acq_write_token"
  /\ sheet' = [sheet EXCEPT ![loc[e].row_idx].LockToken = loc[e].token]
  /\ pc' = [pc EXCEPT ![e] = "acq_write_expiry"]
  /\ UNCHANGED <<clock, nTokens, faults, headers, csv, session, loc, form, call>>

AcqWriteExpiry(e) ==
  /\ pc[e] = "acq_write_expiry"
  /\ sheet' = [sheet EXCEPT ![loc[e].row_idx].LockExpiry = loc[e].expiry_iso]
  /\ pc' = [pc EXCEPT ![e] = "acq_write_holder"]
  /\ UNCHANGED <<clock, nTokens, faults, headers, csv, session, loc, form, call>>

(* the holder write, then "return token, expiry_iso" *)
AcqWriteHolder(e) ==
  /\ pc[e] = "acq_write_holder"
  /\ sheet' = [sheet EXCEPT ![loc[e].row_idx].LockHolder = "Evaluator"]
  /\ AcquireReturn(e, loc[e].token, loc[e].expiry_iso)
  /\ UNCHANGED <<clock, nTokens, faults, headers, csv, form, call>>

(* a gspread call of acquire_lock raised (or the row was not found): the CSV fallback *)
AcquireFallback(e) ==
  /\ pc[e] \in AcqRemotePcs
  /\ Raises(pc[e] = "acq_open" /\ find_row(sheet, loc[e].name, loc[e].timestamp) = 0)
  /\ LET r == acquire_lock_csv(csv, loc[e].name, loc[e].timestamp, "Evaluator",
                               uuid4(nTokens + 1), clock)
     IN /\ csv' = r.csv
        /\ nTokens' = IF r.token # "" THEN nTokens + 1 ELSE nTokens
        /\ AcquireReturn(e, r.token, r.expiry_iso)
  /\ UNCHANGED <<clock, sheet, headers, form, call>>


(* ========================================================== release_lock *)
RelRemotePcs == {"rel_open", "rel_read", "rel_clear_token", "rel_clear_expiry"}
SubmitButtons == {"stage1", "committee", "legacy"}

(* the CSV fallback of release_lock *)
release_lock_csv(c, name, timestamp, token) ==
  LET mask == csv_mask(c.rows, name, timestamp)
      byname == NameMatches(c.rows, name)
      idx == IF mask = {} THEN Max(byname) ELSE Min(mask)
      failed == [csv |-> c, ok |-> FALSE]
  IN IF ~c.exists \/ "Lock Token" \notin c.cols THEN failed
     ELSE IF mask = {} /\ byname = {} THEN failed
     ELSE IF csv_str(c, "Lock Token", c.rows[idx].LockToken) = ""
             \/ csv_str(c, "Lock Token", c.rows[idx].LockToken) # token
     THEN failed
     ELSE [csv |-> to_csv([c EXCEPT !.cols = c.cols \cup {"Lock Expiry"},
                                    !.rows[idx].LockToken = "",
                                    !.rows[idx].LockExpiry = <<>>]),
           ok |-> TRUE]

(* what the pressed button does once release_lock returned ok *)
ReleaseReturn(e, ok) ==
  /\ loc' = [loc EXCEPT ![e] = EndOfRun(e)]
  /\ IF loc[e].button = "release"
     THEN /\ session' = IF ok THEN [session EXCEPT ![e][loc[e].name] = NoSession]
                        ELSE session
          /\ pc' = [pc EXCEPT ![e] = IF ok THEN "released" ELSE "release_failed"]
     ELSE /\ session' = [session EXCEPT ![e][loc[e].name] = NoSession]
          /\ pc' = [pc EXCEPT ![e] = IF ok THEN "submitted_released" ELSE "submitted"]

(* the page is run again with the Release Lock button pressed *)
PressRelease(e) ==
  /\ Ready(e)
  /\ \E selected \in CandidateNames, remote_ok \in BOOLEAN :
       LET df == read_records(remote_ok)
       IN /\ workspace_renders(df)
          /\ NameMatches(df.rows, selected) # {}
          /\ session[e][selected].lock_token # ""
          /\ loc' = [loc EXCEPT ![e] =
                       [NoLoc EXCEPT !.button = "release", !.name = selected,
                                     !.timestamp = page_timestamp(df, selected),
                                     !.lock_token = session[e][selected].lock_token]]
  /\ pc' = [pc EXCEPT ![e] = "rel_open"]
  /\ UNCHANGED <<clock, nTokens, faults, sheet, headers, csv, session, form, call>>

(* row_values(1), get_all_records(), the row lookup; "if lock_col is None: return False" *)
RelOpen(e) ==
  /\ pc[e] = "rel_open"
  /\ find_row(sheet, loc[e].name, loc[e].timestamp) # 0
  /\ IF "Lock Token" \notin headers
     THEN ReleaseReturn(e, FALSE)
     ELSE /\ loc' = [loc EXCEPT ![e].row_idx = find_row(sheet, loc[e].name, loc[e].timestamp),
                                ![e].cols = headers]
          /\ pc' = [pc EXCEPT ![e] = "rel_read"]
          /\ session' = session
  /\ UNCHANGED <<clock, nTokens, faults, sheet, headers, csv, form, call>>

(* current = worksheet.cell(row_idx, lock_col).value or "", and the token comparison *)
(* variant: the stored token is cleared whoever asks *)
RelRead_forced(e) ==
  /\ pc[e] = "rel_read"
  /\ IF sheet[loc[e].row_idx].LockToken = ""
     THEN ReleaseReturn(e, FALSE)
     ELSE /\ pc' = [pc EXCEPT ![e] = "rel_clear_token"]
          /\ UNCHANGED <<loc, session>>
  /\ UNCHANGED <<clock, nTokens, faults, sheet, headers, csv, form, call>>

RelRead(e) ==
  /\ pc[e] = "rel_read"
  /\ IF sheet[loc[e].row_idx].LockToken = ""
        \/ sheet[loc[e].row_idx].LockToken # loc[e].lock_token
     THEN ReleaseReturn(e, FALSE)
     ELSE /\ pc' = [pc EXCEPT ![e] = "rel_clear_token"]
          /\ UNCHANGED <<loc, session>>
  /\ UNCHANGED <<clock, nTokens, faults, sheet, headers, csv, form, call>>

RelClearToken(e) ==
  /\ pc[e] = "rel_clear_token"
  /\ sheet' = [sheet EXCEPT ![loc[e].row_idx].LockToken = ""]
  /\ IF "Lock Expiry" \in loc[e].cols
     THEN /\ pc' = [pc EXCEPT ![e] = "rel_clear_expiry"]
          /\ UNCHANGED <<loc, session>>
     ELSE ReleaseReturn(e, TRUE)
  /\ UNCHANGED <<clock, nTokens, faults, headers, csv, form, call>>

RelClearExpiry(e) ==
  /\ pc[e] = "rel_clear_expiry"
  /\ sheet' = [sheet EXCEPT ![loc[e].row_idx].LockExpiry = <<>>]
  /\ ReleaseReturn(e, TRUE)
  /\ UNCHANGED <<clock, nTokens, faults, headers, csv, form, call>>

(* a gspread call of release_lock raised (or the row was not found): the CSV fallback *)
ReleaseFallback(e) ==
  /\ pc[e] \in RelRemotePcs
  /\ Raises(pc[e] = "rel_open" /\ find_row(sheet, loc[e].name, loc[e].timestamp) = 0)
  /\ LET r == release_lock_csv(csv, loc[e].name, loc[e].timestamp, loc[e].lock_token)
     IN /\ csv' = r.csv
        /\ ReleaseReturn(e, r.ok)
  /\ UNCHANGED <<clock, nTokens, sheet, headers, form, call>>


(* ================================================= update_evaluator_vote *)
UpdWriteSteps ==
  <<"upd_vote", "upd_comment", "upd_s1rec", "upd_s1comment", "upd_cv_read",
    "upd_cv_write", "upd_status", "upd_clear_token", "upd_clear_expiry">>

UpdWritePcs == {UpdWriteSteps[i] : i \in 1..Len(UpdWriteSteps)}
UpdRemotePcs == {"upd_open", "upd_check"} \cup UpdWritePcs

(* the "if ... is not None" guards of the cell updates, in program order *)
step_applies(step, args, cols, lock_token) ==
  CASE step = "upd_vote" -> args.vote # None
    [] step = "upd_comment" -> args.comment # None
    [] step = "upd_s1rec" -> args.stage1_rec # None
    [] step = "upd_s1comment" -> args.stage1_comment # None
    [] step = "upd_cv_read" -> args.committee_vote # None
    [] step = "upd_cv_write" -> args.committee_vote # None
    [] step = "upd_status" -> args.current_status # None
    [] step = "upd_clear_token" -> "Lock Token" \in cols /\ lock_token # ""
    [] step = "upd_clear_expiry" ->
         "Lock Token" \in cols /\ lock_token # "" /\ "Lock Expiry" \in cols

(* the first cell call after position k; "return" after the last one *)
next_step(k, args, cols, lock_token) ==
  LET later == {i \in (k + 1)..Len(UpdWriteSteps) :
                  step_applies(UpdWriteSteps[i], args, cols, lock_token)}
  IN IF later = {} THEN "return" ELSE UpdWriteSteps[Min(later)]

step_index(step) == CHOOSE i \in 1..Len(UpdWriteSteps) : UpdWriteSteps[i] = step

(* the cell written by one step of "Apply updates" / "clear it after a successful update" *)
apply_step(step, row, args, existing) ==
  CASE step = "upd_vote" -> [row EXCEPT !.EvaluatorVote = args.vote[1]]
    [] step = "upd_comment" -> [row EXCEPT !.EvaluatorComment = args.comment[1]]
    [] step = "upd_s1rec" -> [row EXCEPT !.Stage1Recommendation = args.stage1_rec[1]]
    [] step = "upd_s1comment" -> [row EXCEPT !.Stage1Comment = args.stage1_comment[1]]
    [] step = "upd_cv_read" -> row
    [] step = "upd_cv_write" ->
         [row EXCEPT !.CommitteeVotes =
            append_vote(existing, args.evaluator_name, args.committee_vote[1])]
    [] step = "upd_status" -> [row EXCEPT !.CurrentStatus = args.current_status[1]]
    [] step = "upd_clear_token" -> [row EXCEPT !.LockToken = ""]
    [] step = "upd_clear_expiry" -> [row EXCEPT !.LockExpiry = <<>>]

(* "if current_token: if not lock_token or str(lock_token) != str(current_token)" *)
lock_refuses(current_token, lock_token) ==
  current_token # "" /\ (lock_token = "" \/ lock_token # current_token)

(* the row the CSV fallback updates: the first masked row, else the last with the name *)
csv_update_idx(rows, name, timestamp) ==
  IF csv_mask(rows, name, timestamp) # {} THEN Min(csv_mask(rows, name, timestamp))
  ELSE IF NameMatches(rows, name) # {} THEN Max(NameMatches(rows, name))
  ELSE 0

(* the lock check of the CSV fallback: made on the first masked row, when there is one *)
csv_lock_refuses(c, name, timestamp, lock_token) ==
  /\ csv_mask(c.rows, name, timestamp) # {}
  /\ lock_refuses(csv_str(c, "Lock Token",
                          c.rows[Min(csv_mask(c.rows, name, timestamp))].LockToken),
                  lock_token)

csv_apply(row, args, lock_token) ==
  LET r1 == IF args.vote # None THEN [row EXCEPT !.EvaluatorVote = args.vote[1]] ELSE row
      r2 == IF args.comment # None THEN [r1 EXCEPT !.EvaluatorComment = args.comment[1]] ELSE r1
      r3 == IF args.stage1_rec # None
            THEN [r2 EXCEPT !.Stage1Recommendation = args.stage1_rec[1]] ELSE r2
      r4 == IF args.stage1_comment # None
            THEN [r3 EXCEPT !.Stage1Comment = args.stage1_comment[1]] ELSE r3
      r5 == IF args.committee_vote # None
            THEN [r4 EXCEPT !.CommitteeVotes =
                    append_vote(csv_existing_votes(r4.CommitteeVotes),
                                args.evaluator_name, args.committee_vote[1])]
            ELSE r4
      r6 == IF args.current_status # None
            THEN [r5 EXCEPT !.CurrentStatus = args.current_status[1]] ELSE r5
  IN IF lock_token # "" THEN [r6 EXCEPT !.LockToken = "", !.LockExpiry = <<>>] ELSE r6

(* the CSV fallback of update_evaluator_vote *)
update_evaluator_vote_csv(c, name, timestamp, args, lock_token) ==
  LET idx == csv_update_idx(c.rows, name, timestamp)
      failed == [csv |-> c, ok |-> FALSE]
  IN IF ~c.exists THEN failed
     ELSE IF csv_lock_refuses(c, name, timestamp, lock_token) THEN failed
     ELSE IF idx = 0 THEN failed
     ELSE [csv |-> to_csv([c EXCEPT !.cols = c.cols \cup {"Evaluator Vote",
                                      "Evaluator Comment", "Lock Token", "Lock Expiry"},
                                    !.rows[idx] = csv_apply(c.rows[idx], args, lock_token)]),
           ok |-> TRUE]

(* what the pressed submit button does once update_evaluator_vote returned ok:
   on success it calls release_lock(selected, timestamp, locked_token) *)
UpdateReturn(e, ok) ==
  /\ session' = session
  /\ IF ok /\ loc[e].button \notin SubmitButtons
     THEN /\ pc' = [pc EXCEPT ![e] = "updated"]
          /\ loc' = [loc EXCEPT ![e] = EndOfRun(e)]
     ELSE IF ok
     THEN /\ pc' = [pc EXCEPT ![e] = "rel_open"]
          /\ loc' = [loc EXCEPT ![e] =
                       [NoLoc EXCEPT !.button = loc[e].button, !.name = loc[e].name,
                                     !.timestamp = loc[e].timestamp,
                                     !.lock_token = loc[e].lock_token]]
     ELSE /\ pc' = [pc EXCEPT ![e] = "submit_failed"]
          /\ loc' = [loc EXCEPT ![e] = EndOfRun(e)]

(* row_values(1), get_all_records(), the row lookup and the lock header scan *)
UpdOpen(e) ==
  /\ pc[e] = "upd_open"
  /\ find_row(sheet, loc[e].name, loc[e].timestamp) # 0
  /\ IF "Lock Token" \in headers
     THEN /\ pc' = [pc EXCEPT ![e] = "upd_check"]
          /\ loc' = [loc EXCEPT ![e].row_idx = find_row(sheet, loc[e].name, loc[e].timestamp),
                                ![e].cols = headers,
                                ![e].record =
                                  <<sheet[find_row(sheet, loc[e].name, loc[e].timestamp)]>>]
          /\ session' = session
     ELSE IF next_step(0, loc[e].args, headers, loc[e].lock_token) = "return"
     THEN UpdateReturn(e, TRUE)
     ELSE /\ pc' = [pc EXCEPT ![e] = next_step(0, loc[e].args, headers, loc[e].lock_token)]
          /\ loc' = [loc EXCEPT ![e].row_idx = find_row(sheet, loc[e].name, loc[e].timestamp),
                                ![e].cols = headers,
                                ![e].record =
                                  <<sheet[find_row(sheet, loc[e].name, loc[e].timestamp)]>>]
          /\ session' = session
  /\ UNCHANGED <<clock, nTokens, faults, sheet, headers, csv, form, call>>

(* "If locked, verify provided lock_token matches": the cell read; a refusal raises
   inside the try, so the except branch (the CSV fallback) runs. The loop that follows
   (lines 488-502) adds the target headers the sheet lacks: log_submission has written
   all six with the first row, so it writes nothing. *)
UpdCheck(e) ==
  /\ pc[e] = "upd_check"
  /\ IF lock_refuses(sheet[loc[e].row_idx].LockToken, loc[e].lock_token)
     THEN LET r == update_evaluator_vote_csv(csv, loc[e].name, loc[e].timestamp,
                                             loc[e].args, loc[e].lock_token)
          IN /\ csv' = r.csv
             /\ UpdateReturn(e, r.ok)
     ELSE /\ csv' = csv
          /\ IF next_step(0, loc[e].args, loc[e].cols, loc[e].lock_token) = "return"
             THEN UpdateReturn(e, TRUE)
             ELSE /\ pc' = [pc EXCEPT ![e] =
                              next_step(0, loc[e].args, loc[e].cols, loc[e].lock_token)]
                  /\ UNCHANGED <<loc, session>>
  /\ UNCHANGED <<clock, nTokens, faults, sheet, headers, form, call>>

(* one worksheet.update_cell / worksheet.cell of lines 504-525, then the next one or
   "return True" *)
UpdStep(e) ==
  /\ pc[e] \in UpdWritePcs
  /\ sheet' = [sheet EXCEPT ![loc[e].row_idx] =
                 apply_step(pc[e], sheet[loc[e].row_idx], loc[e].args, loc[e].existing)]
  /\ LET nxt == next_step(step_index(pc[e]), loc[e].args, loc[e].cols, loc[e].lock_token)
     IN IF nxt = "return"
        THEN UpdateReturn(e, TRUE)
        ELSE /\ pc' = [pc EXCEPT ![e] = nxt]
             /\ loc' = IF pc[e] = "upd_cv_read"
                       THEN [loc EXCEPT ![e].existing = sheet[loc[e].row_idx].CommitteeVotes]
                       ELSE loc
             /\ session' = session
  /\ UNCHANGED <<clock, nTokens, faults, headers, csv, form, call>>

(* a gspread call of update_evaluator_vote raised (or the row was not found) *)
UpdateFallback(e) ==
  /\ pc[e] \in UpdRemotePcs
  /\ Raises(pc[e] = "upd_open" /\ find_row(sheet, loc[e].name, loc[e].timestamp) = 0)
  /\ LET r == update_evaluator_vote_csv(csv, loc[e].name, loc[e].timestamp,
                                        loc[e].args, loc[e].lock_token)
     IN /\ csv' = r.csv
        /\ UpdateReturn(e, r.ok)
  /\ UNCHANGED <<clock, nTokens, sheet, headers, form, call>>


(* ===================================================== the submit buttons *)
(* "if not stage1_rec or pd.isna(stage1_rec) or str(stage1_rec).strip() == ''" *)
stage1_open(rec) == rec.Stage1Recommendation = ""

(* the call a submit button makes with the session's lock token *)
StartUpdate(e, button, selected, timestamp, args) ==
  /\ pc' = [pc EXCEPT ![e] = "upd_open"]
  /\ loc' = [loc EXCEPT ![e] =
               [NoLoc EXCEPT !.button = button, !.name = selected,
                             !.timestamp = timestamp,
                             !.lock_token = session[e][selected].lock_token,
                             !.args = args]]

(* an st.error branch of a submit button: nothing is called *)
ShowError(e, button, message, selected, timestamp) ==
  /\ pc' = [pc EXCEPT ![e] = message]
  /\ loc' = [loc EXCEPT ![e] = [NoLoc EXCEPT !.button = button, !.name = selected,
                                             !.timestamp = timestamp]]

(* Submit Stage 1 Recommendation, rendered while the record has no recommendation *)
PressStage1(e) ==
  /\ Ready(e)
  /\ \E selected \in CandidateNames, remote_ok \in BOOLEAN,
        rec_choice \in {""} \cup Stage1Choices, rec_comment \in Comments :
       LET df == read_records(remote_ok)
       IN /\ workspace_renders(df)
          /\ NameMatches(df.rows, selected) # {}
          /\ stage1_open(latest_rec(df, selected))
          /\ IF session[e][selected].lock_token = ""
             THEN ShowError(e, "stage1", "need_lock", selected, page_timestamp(df, selected))
             ELSE IF rec_choice = ""
             THEN ShowError(e, "stage1", "need_choice", selected, page_timestamp(df, selected))
             ELSE StartUpdate(e, "stage1", selected, page_timestamp(df, selected),
                    [NoArgs EXCEPT
                       !.stage1_rec = Some(rec_choice),
                       !.stage1_comment = Some(rec_comment),
                       !.current_status =
                         Some(IF rec_choice = "Recommend for Finals"
                              THEN "Stage 1 Recommended" ELSE "Stage 1 Rejected")])
  /\ UNCHANGED <<clock, nTokens, faults, sheet, headers, csv, session, form, call>>

(* Submit Committee Vote, rendered once the record has a Stage 1 recommendation *)
PressCommittee(e) ==
  /\ Ready(e)
  /\ \E selected \in CandidateNames, remote_ok \in BOOLEAN,
        final_vote \in {""} \cup FinalVoteChoices, evaluator_name \in {"", e},
        stage2_comment \in Comments :
       LET df == read_records(remote_ok)
       IN /\ workspace_renders(df)
          /\ NameMatches(df.rows, selected) # {}
          /\ ~stage1_open(latest_rec(df, selected))
          /\ IF session[e][selected].lock_token = ""
             THEN ShowError(e, "committee", "need_lock", selected, page_timestamp(df, selected))
             ELSE IF final_vote = "" \/ evaluator_name = ""
             THEN ShowError(e, "committee", "need_choice", selected, page_timestamp(df, selected))
             ELSE StartUpdate(e, "committee", selected, page_timestamp(df, selected),
                    [NoArgs EXCEPT
                       !.committee_vote = Some(final_vote),
                       !.evaluator_name = Some(evaluator_name),
                       !.comment = Some(stage2_comment),
                       !.current_status = Some("Stage 2 In Progress")])
  /\ UNCHANGED <<clock, nTokens, faults, sheet, headers, csv, session, form, call>>

(* Submit Vote & Comment, the legacy button, always rendered *)
(* variant: the legacy submit button does not look at the session's token *)
PressLegacy_unlocked(e) ==
  /\ Ready(e)
  /\ \E selected \in CandidateNames, remote_ok \in BOOLEAN,
        vote_choice \in LegacyVoteChoices, evaluator_comment \in Comments :
       LET df == read_records(remote_ok)
       IN /\ workspace_renders(df)
          /\ NameMatches(df.rows, selected) # {}
          /\ StartUpdate(e, "legacy", selected, page_timestamp(df, selected),
                [NoArgs EXCEPT !.vote = Some(vote_choice),
                               !.comment = Some(evaluator_comment)])
  /\ UNCHANGED <<clock, nTokens, faults, sheet, headers, csv, session, form, call>>

PressLegacy(e) ==
  /\ Ready(e)
  /\ \E selected \in CandidateNames, remote_ok \in BOOLEAN,
        vote_choice \in LegacyVoteChoices, evaluator_comment \in Comments :
       LET df == read_records(remote_ok)
       IN /\ workspace_renders(df)
          /\ NameMatches(df.rows, selected) # {}
          /\ IF session[e][selected].lock_token = ""
             THEN ShowError(e, "legacy", "need_lock", selected, page_timestamp(df, selected))
             ELSE StartUpdate(e, "legacy", selected, page_timestamp(df, selected),
                    [NoArgs EXCEPT !.vote = Some(vote_choice),
                                   !.comment = Some(evaluator_comment)])
  /\ UNCHANGED <<clock, nTokens, faults, sheet, headers, csv, session, form, call>>

(* ================================================================== Next *)
Next ==
  \/ Tick
  \/ Submit
  \/ \E e \in Evaluators : PressAcquire(e)
  \/ \E e \in Evaluators : PressRelease(e)
  \/ \E e \in Evaluators : PressStage1(e)
  \/ \E e \in Evaluators : PressCommittee(e)
  \/ \E e \in Evaluators : PressLegacy(e)
  \/ \E e \in Evaluators : AcqOpen(e)
  \/ \E e \in Evaluators : AcqHdr(e)
  \/ \E e \in Evaluators : AcqReadToken(e)
  \/ \E e \in Evaluators : AcqReadExpiry(e)
  \/ \E e \in Evaluators : AcqWriteToken(e)
  \/ \E e \in Evaluators : AcqWriteExpiry(e)
  \/ \E e \in Evaluators : AcqWriteHolder(e)
  \/ \E e \in Evaluators : AcquireFallback(e)
  \/ \E e \in Evaluators : RelOpen(e)
  \/ \E e \in Evaluators : RelRead(e)
  \/ \E e \in Evaluators : RelClearToken(e)
  \/ \E e \in Evaluators : RelClearExpiry(e)
  \/ \E e \in Evaluators : ReleaseFallback(e)
  \/ \E e \in Evaluators : UpdOpen(e)
  \/ \E e \in Evaluators : UpdCheck(e)
  \/ \E e \in Evaluators : UpdStep(e)
  \/ \E e \in Evaluators : UpdateFallback(e)

(* the sessions' requests overlap: each gspread call is a step of its own *)
Spec == Init /\ [][Next]_vars

(* a page is not run while another session's run is under way *)
Alone(e) == \A o \in Evaluators \ {e} : Ready(o)

NextSerial ==
  \/ Tick
  \/ Submit
  \/ \E e \in Evaluators : Alone(e) /\ PressAcquire(e)
  \/ \E e \in Evaluators : Alone(e) /\ PressRelease(e)
  \/ \E e \in Evaluators : Alone(e) /\ PressStage1(e)
  \/ \E e \in Evaluators : Alone(e) /\ PressCommittee(e)
  \/ \E e \in Evaluators : Alone(e) /\ PressLegacy(e)
  \/ \E e \in Evaluators : AcqOpen(e)
  \/ \E e \in Evaluators : AcqHdr(e)
  \/ \E e \in Evaluators : AcqReadToken(e)
  \/ \E e \in Evaluators : AcqReadExpiry(e)
  \/ \E e \in Evaluators : AcqWriteToken(e)
  \/ \E e \in Evaluators : AcqWriteExpiry(e)
  \/ \E e \in Evaluators : AcqWriteHolder(e)
  \/ \E e \in Evaluators : AcquireFallback(e)
  \/ \E e \in Evaluators : RelOpen(e)
  \/ \E e \in Evaluators : RelRead(e)
  \/ \E e \in Evaluators : RelClearToken(e)
  \/ \E e \in Evaluators : RelClearExpiry(e)
  \/ \E e \in Evaluators : ReleaseFallback(e)
  \/ \E e \in Evaluators : UpdOpen(e)
  \/ \E e \in Evaluators : UpdCheck(e)
  \/ \E e \in Evaluators : UpdStep(e)
  \/ \E e \in Evaluators : UpdateFallback(e)

(* the requests are served one at a time, and gspread calls may raise *)
SpecFaulty == InitFaulty /\ [][NextSerial]_vars

(* The second review stage. A candidate submitted while the sheet was unreachable
   (the record is in the CSV), an evaluator locked the CSV record and recommended the
   candidate for the finals, and the candidate submitted again once the sheet was
   back: the pages, rendered from the CSV, offer the committee vote, and the lock
   functions find the candidate's row in the sheet. *)
Stage1Done ==
  /\ sheet = <<NewRow("A", isoformat(2))>>
  /\ headers = {}
  /\ csv = [exists |-> TRUE,
            cols |-> LockHeaders \cup {"Evaluator Vote", "Evaluator Comment"},
            rows |-> <<[NewRow("A", isoformat(1)) EXCEPT
                          !.Stage1Recommendation = "Recommend for Finals",
                          !.Stage1Comment = "ok",
                          !.CurrentStatus = "Stage 1 Recommended",
                          !.LockHolder = "Evaluator"]>>]
  /\ session = [e \in Evaluators |-> [n \in CandidateNames |-> NoSession]]

InitStage2 ==
  /\ Stage1Done
  /\ clock = 0
  /\ nTokens = 0
  /\ faults = 0
  /\ pc = [e \in Evaluators |-> "idle"]
  /\ loc = [e \in Evaluators |-> NoLoc]
  /\ form = NoForm /\ call = NoCall

(* no further submission arrives, the candidate's row is found in the sheet and no
   gspread call raises *)
NextStage2 ==
  \/ Tick
  \/ \E e \in Evaluators : PressAcquire(e)
  \/ \E e \in Evaluators : PressRelease(e)
  \/ \E e \in Evaluators : PressCommittee(e)
  \/ \E e \in Evaluators : PressLegacy(e)
  \/ \E e \in Evaluators : AcqOpen(e)
  \/ \E e \in Evaluators : AcqHdr(e)
  \/ \E e \in Evaluators : AcqReadToken(e)
  \/ \E e \in Evaluators : AcqReadExpiry(e)
  \/ \E e \in Evaluators : AcqWriteToken(e)
  \/ \E e \in Evaluators : AcqWriteExpiry(e)
  \/ \E e \in Evaluators : AcqWriteHolder(e)
  \/ \E e \in Evaluators : RelOpen(e)
  \/ \E e \in Evaluators : RelRead(e)
  \/ \E e \in Evaluators : RelClearToken(e)
  \/ \E e \in Evaluators : RelClearExpiry(e)
  \/ \E e \in Evaluators : UpdOpen(e)
  \/ \E e \in Evaluators : UpdCheck(e)
  \/ \E e \in Evaluators : UpdStep(e)

SpecStage2 == InitStage2 /\ [][NextStage2]_vars

(* ================================================================ claims *)
(* e's acquire_lock call returns in this step *)
AcquireReturns(e) ==
  pc[e] \in AcqRemotePcs /\ pc'[e] \in {"lock_acquired", "acquire_failed"}

(* h's page shows "Lock acquired": acquire_lock returned h the token of its session,
   for the record key in loc[h], and h has pressed nothing since *)
JustAcquired(h) == pc[h] = "lock_acquired"

SameKey(e, h) == loc[e].name = loc[h].name /\ loc[e].timestamp = loc[h].timestamp

SessionUnexpired(h, name) ==
  /\ session[h][name].lock_token # ""
  /\ fromisoformat(session[h][name].lock_expiry) > clock

(* C1. Sequential exclusivity of acquire_lock: when acquire_lock returned a token for
   a record key, the holder has neither released it nor updated with it and the
   expiry has not passed, a later acquire_lock for the same record key returns
   (None, None). *)
C1_SequentialExclusivity ==
  [][\A e \in Evaluators : \A h \in Evaluators \ {e} :
       (/\ AcquireReturns(e)
        /\ JustAcquired(h)
        /\ SameKey(e, h)
        /\ SessionUnexpired(h, loc[h].name))
       => pc'[e] = "acquire_failed"]_vars

(* e's step leaves position p without any gspread call raising *)
StepsFrom(e, p) == pc[e] = p /\ pc'[e] # p /\ faults' = faults

(* h holds the lock stored on sheet row i: the token acquire_lock returned to h's
   session is the row's Lock Token, and its expiry has not passed *)
HoldsRow(h, i) ==
  /\ SessionUnexpired(h, sheet[i].Name)
  /\ sheet[i].LockToken = session[h][sheet[i].Name].lock_token

(* C2. Mutual exclusion under concurrency: when the sheet reads and writes of two
   acquire_lock calls on one record interleave, at most one call returns a token, so
   no call returns a token for a row whose lock another session holds unexpired. *)
C2_MutualExclusion ==
  [][\A e \in Evaluators : \A h \in Evaluators \ {e} :
       (StepsFrom(e, "acq_write_holder") /\ HoldsRow(h, loc[e].row_idx))
       => pc'[e] = "acquire_failed"]_vars

(* C2, amended. Without overlap the sheet path excludes: an acquire_lock whose reads
   find a stored token with an expiry that is in the future (or does not parse)
   returns (None, None) and writes nothing. Two calls both return a token only when
   the reads of one precede the token write of the other. *)
C2_StoredLockExcludes ==
  [][\A e \in Evaluators :
       (/\ StepsFrom(e, "acq_read_expiry")
        /\ loc[e].current_token # ""
        /\ (Parsable(sheet[loc[e].row_idx].LockExpiry)
              => fromisoformat(sheet[loc[e].row_idx].LockExpiry) > clock))
       => (/\ pc'[e] = "acquire_failed"
           /\ UNCHANGED <<sheet, headers, csv, session, nTokens>>)]_vars

(* an acquire_lock was refused on the sheet row whose lock h holds: no token was ever
   stored in the CSV, and h's is the only token drawn *)
C2_Witness ==
  \E e \in Evaluators : \E h \in Evaluators \ {e} :
    /\ pc[e] = "acquire_failed"
    /\ nTokens = 1
    /\ "Lock Token" \notin csv.cols
    /\ \E i \in 1..Len(sheet) : sheet[i].Name = loc[e].name /\ HoldsRow(h, i)

(* ------------------------------------------------- update_evaluator_vote *)
(* the row a call of e resolves its key to when no gspread call raises: the sheet row
   of the lookup, else (no sheet row has the name) the row of the CSV fallback *)
OnSheet(e) == find_row(sheet, loc[e].name, loc[e].timestamp) # 0

SheetRow(e) == sheet[find_row(sheet, loc[e].name, loc[e].timestamp)]

OnCsv(e) ==
  ~OnSheet(e) /\ csv.exists /\ csv_update_idx(csv.rows, loc[e].name, loc[e].timestamp) # 0

CsvRow(e) == csv.rows[csv_update_idx(csv.rows, loc[e].name, loc[e].timestamp)]

(* the Lock Token the resolved record stores, "" for an empty or missing cell *)
RecordToken(e) ==
  IF OnSheet(e) THEN SheetRow(e).LockToken
  ELSE IF OnCsv(e) THEN CsvRow(e).LockToken
  ELSE ""

(* e's update_evaluator_vote call passes or fails its lock check in this step *)
UpdateDecides(e) ==
  /\ pc[e] \in {"upd_open", "upd_check"}
  /\ pc'[e] \notin {"upd_open", "upd_check"}
  /\ faults' = faults

(* C3. update_evaluator_vote called with a token that differs from the record's
   stored token returns False and leaves every stored field unchanged, whatever the
   state of the record (locked by someone else, lock expired, never locked). *)
C3_WrongTokenRejected ==
  [][\A e \in Evaluators :
       (UpdateDecides(e) /\ RecordToken(e) # loc[e].lock_token)
       => (pc'[e] = "submit_failed" /\ UNCHANGED <<sheet, csv>>)]_vars

(* the fields of the two review stages *)
StageFields(row) ==
  <<row.Stage1Recommendation, row.Stage1Comment, row.CommitteeVotes>>

(* e's step is made with the token the row stores, before the stored expiry *)
HoldsMatchingUnexpired(e, row) ==
  /\ pc'[e] # pc[e]
  /\ loc[e].lock_token # ""
  /\ loc[e].lock_token = row.LockToken
  /\ Parsable(row.LockExpiry)
  /\ fromisoformat(row.LockExpiry) > clock

(* C4. Stage 1 Recommendation, Stage 1 Comment and Committee Votes of a record
   change only in a step whose caller's token equals the record's stored Lock Token
   while the stored Lock Expiry is still in the future. *)
C4_StageFieldsNeedLiveLock ==
  [][/\ \A i \in 1..Len(sheet) :
          StageFields(sheet'[i]) # StageFields(sheet[i])
          => \E e \in Evaluators : HoldsMatchingUnexpired(e, sheet[i])
     /\ \A i \in 1..Len(csv.rows) :
          StageFields(csv'.rows[i]) # StageFields(csv.rows[i])
          => \E e \in Evaluators : HoldsMatchingUnexpired(e, csv.rows[i])]_vars

(* C5. When update_evaluator_vote is rejected on the sheet because the row's stored
   Lock Token is non-empty and differs from the supplied token, nothing is changed
   in the sheet or in the CSV and the call returns False. *)
C5_SheetRejectionMutatesNothing ==
  [][\A e \in Evaluators :
       (/\ StepsFrom(e, "upd_check")
        /\ sheet[loc[e].row_idx].LockToken # ""
        /\ sheet[loc[e].row_idx].LockToken # loc[e].lock_token)
       => (pc'[e] = "submit_failed" /\ UNCHANGED <<sheet, csv>>)]_vars

(* ----------------------------------------------------------- release_lock *)
(* release_lock returned False to e: the Release Lock button keeps the session's
   token, a submit button shows its message without "and lock released" *)
ReleaseSaidFalse(e) ==
  IF loc[e].button = "release"
  THEN pc'[e] = "release_failed" /\ session'[e] = session[e]
  ELSE pc'[e] = "submitted"

LockFields(row) == <<row.LockToken, row.LockExpiry, row.LockHolder>>

AllLockFields ==
  <<[i \in 1..Len(sheet) |-> LockFields(sheet[i])],
    [i \in 1..Len(csv.rows) |-> LockFields(csv.rows[i])]>>

(* e's release_lock call takes its except branch to the CSV in this step *)
ReleaseFallsBack(e) ==
  /\ pc[e] \in RelRemotePcs
  /\ pc'[e] \notin RelRemotePcs
  /\ (faults' # faults \/ (pc[e] = "rel_open" /\ ~OnSheet(e)))

(* C6. release_lock called with a token different from the stored Lock Token of the
   record it looks at (the sheet row, or the CSV row on the fallback path) returns
   False and leaves Lock Token, Lock Expiry and Lock Holder of every record as they
   were, so a lock re-acquired by another evaluator is not released by the old
   token. *)
C6_WrongTokenReleaseRefused ==
  [][\A e \in Evaluators :
       /\ (StepsFrom(e, "rel_read")
            /\ sheet[loc[e].row_idx].LockToken # loc[e].lock_token)
           => (ReleaseSaidFalse(e) /\ UNCHANGED AllLockFields)
       /\ (/\ ReleaseFallsBack(e)
            /\ csv.exists
            /\ csv_update_idx(csv.rows, loc[e].name, loc[e].timestamp) # 0
            /\ csv.rows[csv_update_idx(csv.rows, loc[e].name, loc[e].timestamp)].LockToken
                 # loc[e].lock_token)
           => (ReleaseSaidFalse(e) /\ UNCHANGED AllLockFields)]_vars

(* the Release Lock button of e was refused with e's expired token while the row
   carries the token another evaluator acquired after the expiry *)
C6_Witness ==
  \E e \in Evaluators : \E h \in Evaluators \ {e} : \E i \in 1..Len(sheet) :
    /\ pc[e] = "release_failed"
    /\ sheet[i].Name = loc[e].name
    /\ session[e][loc[e].name].lock_token # ""
    /\ fromisoformat(session[e][loc[e].name].lock_expiry) <= clock
    /\ HoldsRow(h, i)
    /\ "Lock Token" \notin csv.cols

(* C7. release_lock called with the record's stored token returns True, and an
   acquire_lock for the same record key right afterwards returns a token, on the
   sheet and on the CSV fallback alike (no gspread call has raised). *)
C7_AcquireAfterRelease ==
  [][\A e \in Evaluators : \A h \in Evaluators \ {e} :
       (/\ AcquireReturns(e)
        /\ pc[h] = "released"
        /\ SameKey(e, h)
        /\ faults' = MaxFailures)
       => pc'[e] = "lock_acquired"]_vars

(* ------------------------------------------------------------ lock expiry *)
(* the sheet row of e's acquire_lock call carries a lock whose expiry has passed *)
ReadsExpiredLock(e) ==
  /\ loc[e].current_token # ""
  /\ Parsable(sheet[loc[e].row_idx].LockExpiry)
  /\ fromisoformat(sheet[loc[e].row_idx].LockExpiry) <= clock

(* the CSV row of e's acquire_lock call carries a lock whose expiry has passed *)
CsvExpiredLock(e) ==
  /\ csv.exists
  /\ csv_mask(csv.rows, loc[e].name, loc[e].timestamp) # {}
  /\ LET row == csv.rows[Min(csv_mask(csv.rows, loc[e].name, loc[e].timestamp))]
     IN /\ row.LockToken # ""
        /\ Parsable(row.LockExpiry)
        /\ fromisoformat(row.LockExpiry) <= clock

(* acquire_lock returns e a fresh token in this step, and row carries that token, the
   expiry now + timeout_seconds that e's session is given, and the holder *)
Reacquired(e, old, row) ==
  /\ pc'[e] = "lock_acquired"
  /\ session'[e][loc[e].name].lock_token \notin {"", old.LockToken}
  /\ row.LockToken = session'[e][loc[e].name].lock_token
  /\ row.LockExpiry = session'[e][loc[e].name].lock_expiry
  /\ row.LockHolder = "Evaluator"

(* C8. A lock that was acquired and never released becomes acquirable again once its
   expiry (acquire time + timeout_seconds) has passed: the next acquire_lock on the
   record, when none of its gspread calls raises, goes on to draw a token expiring
   timeout_seconds from now, returns it, and has overwritten token, expiry and
   holder; so does the CSV fallback on a CSV row whose lock has expired. *)
C8_ExpiredLockReacquired ==
  [][\A e \in Evaluators :
       /\ (StepsFrom(e, "acq_read_expiry") /\ ReadsExpiredLock(e))
           => (/\ pc'[e] = "acq_write_token"
               /\ loc'[e].token \notin {"", loc[e].current_token}
               /\ loc'[e].expiry_iso = isoformat(clock + timeout_seconds))
       /\ (StepsFrom(e, "acq_write_holder") /\ loc[e].current_token # "")
           => Reacquired(e, [LockToken |-> loc[e].current_token], sheet'[loc[e].row_idx])
       /\ (/\ AcquireReturns(e)
            /\ (faults' # faults \/ (pc[e] = "acq_open" /\ ~OnSheet(e)))
            /\ CsvExpiredLock(e))
           => (/\ Reacquired(e, CsvRow(e),
                             csv'.rows[Min(csv_mask(csv.rows, loc[e].name, loc[e].timestamp))])
               /\ session'[e][loc[e].name].lock_expiry = isoformat(clock + timeout_seconds))]_vars

(* e was returned a token for the sheet row on which h's lock, never released, had
   expired: both tokens were drawn for this row, no lock was ever stored in the CSV *)
C8_Witness ==
  \E e \in Evaluators : \E h \in Evaluators \ {e} : \E i \in 1..Len(sheet) :
    /\ pc[e] = "lock_acquired"
    /\ HoldsRow(e, i)
    /\ session[h][sheet[i].Name].lock_token # ""
    /\ fromisoformat(session[h][sheet[i].Name].lock_expiry) <= clock
    /\ "Lock Token" \notin csv.cols
    /\ faults = MaxFailures

(* ---------------------------------------------------------- submit buttons *)
SubmitPressed(e) == PressStage1(e) \/ PressCommittee(e) \/ PressLegacy(e)

(* "name:vote" of evaluator e among the entries of a Committee Votes cell *)
HasEntry(votes, e) ==
  \E k \in 1..Len(votes) :
    /\ k + 2 <= Len(votes)
    /\ votes[k] = e
    /\ votes[k + 1] = ":"
    /\ votes[k + 2] \in FinalVoteChoices

(* e's committee vote went through update_evaluator_vote, which returned True *)
CommitteeVoteStored(e) ==
  /\ loc[e].button = "committee"
  /\ pc[e] \in RelRemotePcs \cup {"submitted", "submitted_released"}

(* C9. Two evaluators hold tokens for the same record and each submits a committee
   vote: whatever the interleaving of their sheet reads and writes, every
   update_evaluator_vote call that returned True has its "name:vote" entry in the
   record's Committee Votes. *)
C9_NoCommitteeVoteLost ==
  \A e \in Evaluators :
    CommitteeVoteStored(e)
      => \/ \E i \in 1..Len(sheet) :
              sheet[i].Name = loc[e].name /\ HasEntry(sheet[i].CommitteeVotes, e)
         \/ \E i \in 1..Len(csv.rows) :
              csv.rows[i].Name = loc[e].name /\ HasEntry(csv.rows[i].CommitteeVotes, e)

(* C10. Pressing a submit button (Stage 1 recommendation, committee vote, legacy
   vote & comment) while the session holds no lock token for the selected candidate
   shows the acquire-an-edit-lock error and calls neither update_evaluator_vote nor
   release_lock: no stored field and no session entry changes. *)
C10_SubmitWithoutLock ==
  [][\A e \in Evaluators :
       (SubmitPressed(e) /\ session[e][loc'[e].name].lock_token = "")
       => (/\ pc'[e] = "need_lock"
           /\ UNCHANGED <<sheet, headers, csv, session>>)]_vars

(* e's page shows the acquire-an-edit-lock error and e's session holds no token *)
C10_Witness ==
  \E e \in Evaluators :
    /\ pc[e] = "need_lock"
    /\ session[e][loc[e].name].lock_token = ""

(* ------------------------------------------------------------ review stages *)
(* what Stage 2 adds to a record *)
Stage2Fields(row) == <<row.CommitteeVotes, row.CurrentStatus = "Stage 2 In Progress">>

(* C11. A record whose Stage 1 Recommendation is "Reject" is terminal: no step appends
   a committee vote to it or sets its Current Status to "Stage 2 In Progress". *)
C11_RejectedIsTerminal ==
  [][/\ \A i \in 1..Len(sheet) :
          sheet[i].Stage1Recommendation = "Reject"
          => Stage2Fields(sheet'[i]) = Stage2Fields(sheet[i])
     /\ \A i \in 1..Len(csv.rows) :
          csv.rows[i].Stage1Recommendation = "Reject"
          => Stage2Fields(csv'.rows[i]) = Stage2Fields(csv.rows[i])]_vars

(* e's update_evaluator_vote call returns True in this step *)
UpdateReturnsTrue(e) == pc[e] \in UpdRemotePcs /\ pc'[e] = "rel_open"

(* ... from its except branch, having written the CSV *)
UpdateViaCsv(e) ==
  \/ faults' # faults
  \/ pc[e] = "upd_open" /\ ~OnSheet(e)
  \/ pc[e] = "upd_check"
       /\ lock_refuses(sheet[loc[e].row_idx].LockToken, loc[e].lock_token)

(* the row a call that returns True in this step has written, as it is afterwards *)
WrittenRow(e) ==
  IF UpdateViaCsv(e)
  THEN csv'.rows[csv_update_idx(csv.rows, loc[e].name, loc[e].timestamp)]
  ELSE sheet'[loc[e].row_idx]

(* release_lock, called after the update, only empties lock cells *)
OnlyUnlocks(old, new) ==
  /\ [new EXCEPT !.LockToken = "", !.LockExpiry = <<>>]
       = [old EXCEPT !.LockToken = "", !.LockExpiry = <<>>]
  /\ new.LockToken \in {"", old.LockToken}
  /\ new.LockExpiry \in {<<>>, old.LockExpiry}

(* C12. A successful Stage 1 submit leaves the record with the chosen Stage 1
   Recommendation, with Current Status "Stage 1 Recommended" exactly when the choice
   is "Recommend for Finals" and "Stage 1 Rejected" otherwise, and with Lock Token and
   Lock Expiry empty; the release_lock that follows changes nothing else, and the
   session no longer holds a token when the button is done. *)
C12_Stage1SubmitOutcome ==
  [][\A e \in Evaluators :
       loc[e].button = "stage1"
       => /\ UpdateReturnsTrue(e)
               => /\ loc[e].args.stage1_rec \in {Some(c) : c \in Stage1Choices}
                  /\ WrittenRow(e).Stage1Recommendation = loc[e].args.stage1_rec[1]
                  /\ WrittenRow(e).CurrentStatus =
                       (IF loc[e].args.stage1_rec[1] = "Recommend for Finals"
                        THEN "Stage 1 Recommended" ELSE "Stage 1 Rejected")
                  /\ WrittenRow(e).LockToken = ""
                  /\ WrittenRow(e).LockExpiry = <<>>
          /\ (pc[e] \in RelRemotePcs /\ pc'[e] # pc[e])
               => /\ \A i \in 1..Len(sheet) : OnlyUnlocks(sheet[i], sheet'[i])
                  /\ \A i \in 1..Len(csv.rows) : OnlyUnlocks(csv.rows[i], csv'.rows[i])
                  /\ pc'[e] \notin RelRemotePcs
                       => /\ pc'[e] \in {"submitted", "submitted_released"}
                          /\ session'[e][loc[e].name] = NoSession]_vars

(* e's step is the Committee Votes write of an update_evaluator_vote call that carries
   a committee vote, or the CSV fallback of such a call *)
WritesCommitteeVote(e) ==
  /\ pc[e] \in UpdRemotePcs
  /\ pc'[e] # pc[e]
  /\ loc[e].args.committee_vote # None

(* new is old + (";" if old is non-empty) + "evaluator_name:vote" of e's call *)
AppendsEntry(e, old, new) ==
  new = old \o (IF old # <<>> THEN <<";">> ELSE <<>>)
            \o <<loc[e].args.evaluator_name[1], ":", loc[e].args.committee_vote[1]>>

(* C13. Committee Votes is append-only: the field of a record changes only in an
   update_evaluator_vote call that carries a committee vote, and then to old +
   (";" if old is non-empty) + "evaluator_name:vote", old being the value before the
   write (so the previous value stays a prefix, also when the same name votes
   again). *)
C13_CommitteeVotesAppendOnly ==
  [][/\ \A i \in 1..Len(sheet) :
          sheet'[i].CommitteeVotes # sheet[i].CommitteeVotes
          => \E e \in Evaluators :
               /\ WritesCommitteeVote(e)
               /\ AppendsEntry(e, sheet[i].CommitteeVotes, sheet'[i].CommitteeVotes)
     /\ \A i \in 1..Len(csv.rows) :
          csv'.rows[i].CommitteeVotes # csv.rows[i].CommitteeVotes
          => \E e \in Evaluators :
               /\ WritesCommitteeVote(e)
               /\ AppendsEntry(e, csv.rows[i].CommitteeVotes,
                               csv'.rows[i].CommitteeVotes)]_vars

(* e's update_evaluator_vote call returns False in this step *)
UpdateReturnsFalse(e) == pc[e] \in UpdRemotePcs /\ pc'[e] = "submit_failed"

(* the row of the call's lookup is as get_all_records() returned it *)
RowAsFound(e) ==
  loc[e].record # <<>> => sheet'[loc[e].row_idx] = loc[e].record[1]

(* C14. Whenever update_evaluator_vote returns False, the record is as the call found
   it, in the sheet and in the CSV, also when a gspread call raises partway through
   the cell updates. *)
C14_FailedUpdateChangesNothing ==
  [][\A e \in Evaluators :
       UpdateReturnsFalse(e) => (csv' = csv /\ sheet' = sheet /\ RowAsFound(e))]_vars

(* ------------------------------------------------------ the submitted record *)
(* what an employee types as the action taken for a perspective *)
ActionTexts == {"Cut costs", "N/A"}

ActionInputs == {[PlainActions EXCEPT !["Financial"] = t] : t \in ActionTexts}

(* log_submission with the action texts of the form *)
SubmitRecord ==
  /\ \E name \in CandidateNames, remote_ok \in BOOLEAN, actions_dict \in ActionInputs :
       log_submission(name, ScoresOf(actions_dict), actions_dict, remote_ok, TRUE)
  /\ UNCHANGED <<clock, nTokens, faults, headers, session, pc, loc, form, call>>

NextRecords ==
  \/ SubmitRecord
  \/ \E e \in Evaluators : Alone(e) /\ PressAcquire(e)
  \/ \E e \in Evaluators : Alone(e) /\ PressRelease(e)
  \/ \E e \in Evaluators : Alone(e) /\ PressStage1(e)
  \/ \E e \in Evaluators : Alone(e) /\ PressCommittee(e)
  \/ \E e \in Evaluators : Alone(e) /\ PressLegacy(e)
  \/ \E e \in Evaluators : AcqOpen(e)
  \/ \E e \in Evaluators : AcqHdr(e)
  \/ \E e \in Evaluators : AcqReadToken(e)
  \/ \E e \in Evaluators : AcqReadExpiry(e)
  \/ \E e \in Evaluators : AcqWriteToken(e)
  \/ \E e \in Evaluators : AcqWriteExpiry(e)
  \/ \E e \in Evaluators : AcqWriteHolder(e)
  \/ \E e \in Evaluators : AcquireFallback(e)
  \/ \E e \in Evaluators : RelOpen(e)
  \/ \E e \in Evaluators : RelRead(e)
  \/ \E e \in Evaluators : RelClearToken(e)
  \/ \E e \in Evaluators : RelClearExpiry(e)
  \/ \E e \in Evaluators : ReleaseFallback(e)
  \/ \E e \in Evaluators : UpdOpen(e)
  \/ \E e \in Evaluators : UpdCheck(e)
  \/ \E e \in Evaluators : UpdStep(e)
  \/ \E e \in Evaluators : UpdateFallback(e)

(* the records carry what the employees typed; the evaluators' requests are served
   one at a time within a lock's lifetime, and gspread calls may raise *)
SpecRecords == InitFaulty /\ [][NextRecords]_vars

ScoreFields(row) == <<row.Name, row.Timestamp, row.TotalScore, row.Scores, row.Actions>>

(* C15. A step of acquire_lock, release_lock or update_evaluator_vote (any step that
   logs no submission) leaves the name, the timestamp, the total score, the four
   perspective scores and the four action texts of every record as log_submission
   wrote them, in the sheet and in the CSV. *)
C15_ScoreFieldsWrittenOnce ==
  [][(Len(sheet') = Len(sheet) /\ Len(csv'.rows) = Len(csv.rows))
       => /\ \A i \in 1..Len(sheet) : ScoreFields(sheet'[i]) = ScoreFields(sheet[i])
          /\ \A i \in 1..Len(csv.rows) :
                ScoreFields(csv'.rows[i]) = ScoreFields(csv.rows[i])]_vars

(* the record read_records() returns for a row of the CSV: return pd.read_csv(...) *)
read_back(row) ==
  [Name |-> read_csv_text(row.Name), TotalScore |-> row.TotalScore, Scores |-> row.Scores,
   Actions |-> [p \in Perspectives |-> read_csv_text(row.Actions[p])]]

(* what log_submission was called with *)
Logged(name, actions_dict) ==
  [Name |-> Some(name), TotalScore |-> Sum4(ScoresOf(actions_dict)),
   Scores |-> ScoresOf(actions_dict),
   Actions |-> [p \in Perspectives |-> Some(actions_dict[p])]]

(* log_submission took its CSV fallback with these arguments *)
LoggedToCsv(name, actions_dict) ==
  /\ sheet' = sheet
  /\ csv'.rows = Append(to_csv(csv).rows,
                        NewRecord(name, isoformat(nSubmitted + 1),
                                  ScoresOf(actions_dict), actions_dict))

(* C16. When log_submission falls back to the CSV, the record read_records() reads
   back from the CSV has the name, the total and the four scores, and the four
   action texts log_submission was given. *)
C16_CsvRoundTrip ==
  [][\A name \in CandidateNames, actions_dict \in ActionInputs :
       LoggedToCsv(name, actions_dict)
         => read_back(csv'.rows[Len(csv'.rows)]) = Logged(name, actions_dict)]_vars

(* ================================================= the employee's submission *)
FirstNames == {"", "Ann"}
Surnames == {"", "Lee"}
FileCounts == {0, 2}

(* the number of files uploaded with each perspective *)
FileInputs == {[NoFiles EXCEPT !["Financial"] = n] : n \in FileCounts}

(* what the form's text areas may hold: nothing, blanks, a short text, a text of more
   than 150 characters *)
LongText == Repeat("x", 151)
FormTexts == {"", "   ", "Cut costs", "N/A", LongText}
FormInputs == {[PlainActions EXCEPT !["Financial"] = t] : t \in FormTexts}

(* how upload_to_gdrive ends: it returns (folder_url, files_meta), or raises
   ConnectionError (a network error), RuntimeError("Google Drive service not
   available") or RuntimeError("Drive upload failed: ...") *)
DriveOutcomes == {"uploaded", "ConnectionError", "service not available", "upload failed"}

(* _is_network_error(e) or isinstance(e, (ConnectionError, OSError, socket.gaierror)) *)
is_network_error(e) == e \in {"ConnectionError", "OSError", "HttpError 503"}

IdentityRequired == "Identity Required: Please provide your Name and Surname."
SystemConfigError == "System Config Error"
NetworkWarning == "a temporary network error prevented them from being saved"
UploadWarning == "Could not upload to Google Drive"
SheetError == "Could not write submission to Google Sheet"
CsvError == "Could not write submission to backup CSV"
SubmissionError == "Error in submission"

(* name = f"{first_name.strip()} {last_name.strip()}".strip() *)
full_name(first_name, last_name) == first_name \o " " \o last_name

(* variant: a missing token is not noticed *)
token_missing_ignored(token) == FALSE

(* get_postmark_token: "if not token: raise RuntimeError" *)
token_missing(token) == token = ""

(* the deployment: the Postmark secret is set or not, and the administrator has
   stored a deadline or none *)
InitForm ==
  /\ Start
  /\ faults = 0
  /\ form \in {[NoForm EXCEPT !.postmark_token = t, !.deadline = d] :
                 t \in {"", "pm"}, d \in {None, Some(TickSeconds)}}
  /\ call = NoCall

(* the script run has ended with st.error(message) *)
FormError(f, message) ==
  [f EXCEPT !.pc = "shown", !.messages = f.messages \cup {message}]

(* the form's submit button: the identity check, get_postmark_token, the scores and
   status.info("Finalizing submission...") *)
PressSubmit ==
  /\ form.pc \in {"form", "shown"}
  /\ form.runs < MaxSubmissions
  /\ \E first_name \in FirstNames, last_name \in Surnames,
        actions_dict \in FormInputs, files_dict \in FileInputs :
       LET run == [form EXCEPT !.runs = form.runs + 1,
                               !.first_name = first_name, !.last_name = last_name,
                               !.actions = actions_dict, !.files = files_dict,
                               !.folder_url = "", !.uploaded_files_meta = None,
                               !.upload_error = "", !.messages = {}, !.status = ""]
       IN form' = IF first_name = "" \/ last_name = ""
                  THEN FormError(run, IdentityRequired)
                  ELSE IF token_missing(form.postmark_token)
                  THEN FormError(run, SystemConfigError)
                  ELSE [run EXCEPT !.pc = "upload", !.status = "info"]
  /\ UNCHANGED <<clock, nTokens, faults, sheet, headers, csv, session, pc, loc, call>>

(* upload_to_gdrive and its except branch, up to "if uploaded_files_meta:", which
   raises NameError when no branch has bound the name: the outer except then shows
   "Error in submission" and the run ends *)
Upload ==
  /\ form.pc = "upload"
  /\ \E outcome \in DriveOutcomes :
       form' =
         IF outcome = "uploaded"
         THEN [form EXCEPT !.pc = "email", !.folders = form.folders + 1,
                           !.folder_url = "https://drive.google.com/drive/folders/id",
                           !.uploaded_files_meta = Some(Sum4(form.files))]
         ELSE IF is_network_error(outcome)
         THEN [form EXCEPT !.pc = "email", !.upload_error = outcome,
                           !.folder_url = "Check Email for Attachments",
                           !.uploaded_files_meta = Some(0),
                           !.messages = form.messages \cup {NetworkWarning}]
         ELSE FormError([form EXCEPT !.upload_error = outcome,
                                     !.folder_url = "Check Email for Attachments",
                                     !.messages = form.messages \cup {UploadWarning}],
                        SubmissionError)
  /\ UNCHANGED <<clock, nTokens, faults, sheet, headers, csv, session, pc, loc, call>>

(* variant: a send that raises is not noticed and the record is logged all the same *)
SendEmail_ignoring_failure ==
  /\ form.pc = "email"
  /\ \E sent \in BOOLEAN :
       form' = [form EXCEPT !.pc = "log",
                            !.emails = IF sent THEN form.emails + 1 ELSE form.emails]
  /\ UNCHANGED <<clock, nTokens, faults, sheet, headers, csv, session, pc, loc, call>>

(* client.emails.send(...): the email is sent, or the call raises *)
SendEmail ==
  /\ form.pc = "email"
  /\ \E sent \in BOOLEAN :
       form' = IF sent THEN [form EXCEPT !.pc = "log", !.emails = form.emails + 1]
               ELSE FormError(form, SubmissionError)
  /\ UNCHANGED <<clock, nTokens, faults, sheet, headers, csv, session, pc, loc, call>>

(* log_submission(...) and status.success("Finalizing submission...") *)
LogSubmission ==
  /\ form.pc = "log"
  /\ \E remote_ok \in BOOLEAN, csv_ok \in BOOLEAN :
       /\ log_submission(full_name(form.first_name, form.last_name),
                         score_breakdown_of(form.actions, form.files), form.actions,
                         remote_ok, csv_ok)
       /\ form' = [form EXCEPT !.pc = "shown", !.status = "success",
                     !.messages = form.messages
                        \cup (IF remote_ok THEN {} ELSE {SheetError})
                        \cup (IF remote_ok \/ csv_ok THEN {} ELSE {CsvError})]
  /\ UNCHANGED <<clock, nTokens, faults, headers, session, pc, loc, call>>

NextForm ==
  \/ Tick
  \/ PressSubmit
  \/ Upload
  \/ SendEmail
  \/ LogSubmission

(* employees submit the form, one run of the script at a time *)
SpecForm == InitForm /\ [][NextForm]_vars

RecordStored == Len(sheet') > Len(sheet) \/ Len(csv'.rows) > Len(csv.rows)

(* C17. When a run of the submission shows its success message, the run has stored
   its record in the sheet or in the CSV; when both writes failed, what the run
   shows is an error and no success. *)
C17_SuccessOnlyIfStored ==
  [][(form'.status = "success" /\ form.status # "success") => RecordStored]_vars

UploadFailed == form.pc = "upload" /\ form'.pc # "upload" /\ form'.upload_error # ""

FollowUpMarkers == {"Manual Review Required (Upload Error)", "Check Email for Attachments"}

(* C18. When upload_to_gdrive raises, whatever the exception, the run is not aborted:
   it goes on to send the email and to log the record, with a folder field that
   asks for manual follow-up. *)
C18_UploadFailureTolerated ==
  [][UploadFailed => (form'.pc = "email" /\ form'.folder_url \in FollowUpMarkers)]_vars

DeadlinePassed == form.deadline # None /\ form.deadline[1] <= clock

(* C19. Once the stored deadline has passed, no step of a form submit sends an email
   or writes a record. *)
C19_DeadlineGate ==
  [][DeadlinePassed => (form'.emails = form.emails /\ sheet' = sheet /\ csv' = csv)]_vars

(* the run under way, or the last one, was submitted without a first name or a
   surname, or while no Postmark token is configured *)
Unidentified(f) ==
  f.pc # "form" /\ (f.first_name = "" \/ f.last_name = "" \/ f.postmark_token = "")

(* C20. A form submit with an empty first name or surname, or without a configured
   Postmark token, ends with an error shown and no success, and no step of it uploads
   evidence, sends an email or writes a record to the sheet or the CSV. *)
C20_InvalidSubmitDoesNothing ==
  [][Unidentified(form')
       => /\ form'.pc = "shown"
          /\ form'.messages # {} /\ form'.messages \subseteq {IdentityRequired, SystemConfigError}
          /\ form'.status = ""
          /\ form'.folders = form.folders /\ form'.emails = form.emails
          /\ sheet' = sheet /\ csv' = csv]_vars

C20_Witness ==
  /\ form.pc = "shown" /\ form.first_name = "Ann" /\ form.last_name = "Lee"
  /\ form.postmark_token = "" /\ form.messages = {SystemConfigError}
  /\ form.runs = 2 /\ form.emails = 0 /\ form.folders = 0

(* ------------------------------------------------------------- the scores *)
StoredRecords ==
  {sheet[i] : i \in 1..Len(sheet)} \cup {csv.rows[i] : i \in 1..Len(csv.rows)}

(* C21. Every record the submission pipeline has stored, in the sheet or in the CSV,
   has each of its four perspective scores in 0..25 and a Total Score that is the sum
   of the four, hence in 0..100. *)
C21_ScoresAndTotal ==
  \A r \in StoredRecords :
    /\ \A p \in Perspectives : r.Scores[p] \in 0..25
    /\ r.TotalScore = r.Scores["Financial"] + r.Scores["Customer"]
                        + r.Scores["Internal Business Processes"]
                        + r.Scores["Learning & Growth"]
    /\ r.TotalScore \in 0..100

C21_Witness ==
  \E r \in StoredRecords :
    /\ r.Actions["Financial"] = LongText
    /\ r.Scores["Financial"] = 25
    /\ r.TotalScore = 55

(* ================================================== the scoring functions *)
(* str.lower() *)
UpperCase == "ABCDEFGHIJKLMNOPQRSTUVWXYZ"
LowerCase == "abcdefghijklmnopqrstuvwxyz"

lower_char(c) ==
  IF \E i \in 1..26 : SubSeq(UpperCase, i, i) = c
  THEN LET i == CHOOSE j \in 1..26 : SubSeq(UpperCase, j, j) = c IN SubSeq(LowerCase, i, i)
  ELSE c

RECURSIVE lower(_)
lower(s) ==
  IF Len(s) <= 1 THEN lower_char(s)
  ELSE lower(SubSeq(s, 1, Len(s) \div 2)) \o lower(SubSeq(s, Len(s) \div 2 + 1, Len(s)))

(* kw in text *)
Contains(text, kw) ==
  \E i \in 0..(Len(text) - Len(kw)) : SubSeq(text, i + 1, i + Len(kw)) = kw

(* matches: the keywords of the list found in the lowered text *)
matches(action_text, keywords) ==
  Cardinality({k \in 1..Len(keywords) : Contains(lower(action_text), lower(keywords[k]))})

(* A score of score_perspective is a multiple of a tenth of a point and is kept in
   tenths: 250 is 25.0. Before rounding it is kept in thirtieths of a point, in which
   one keyword (3 points) is 90 and one character (10/300 of a point) is 1. *)
Thirtieths(points) == points * 30

(* round(x, 1) of x = n thirtieths, in tenths: n / 3 is never halfway between two
   tenths *)
round1(n) == (n + 1) \div 3

(* variant: the extra-mile branch forgets the keyword points *)
score_perspective_boost_only(action_text, num_files, keywords) ==
  LET text == lower(action_text)
      keyword_points == Min({matches(action_text, keywords), 5}) * 90
      length_points == Min({Len(text), 300})
      score == keyword_points + length_points
      boosted == IF Len(text) > 200 /\ num_files >= 2
                 THEN Min({Thirtieths(25), length_points + Thirtieths(3)})
                 ELSE score
  IN IF text = "" THEN 0 ELSE round1(Min({Thirtieths(25), boosted}))

(* variant: the extra-mile boost is subtracted *)
score_perspective_penalty(action_text, num_files, keywords) ==
  LET text == lower(action_text)
      keyword_points == Min({matches(action_text, keywords), 5}) * 90
      length_points == Min({Len(text), 300})
      score == keyword_points + length_points
      boosted == IF Len(text) > 200 /\ num_files >= 2
                 THEN Min({Thirtieths(25), score - Thirtieths(3)})
                 ELSE score
  IN IF text = "" THEN 0 ELSE round1(Min({Thirtieths(25), boosted}))

(* score_perspective(action_text, files, keywords), num_files = len(files), in tenths *)
score_perspective(action_text, num_files, keywords) ==
  LET text == lower(action_text)
      keyword_points == Min({matches(action_text, keywords), 5}) * 90
      length_points == Min({Len(text), 300})
      score == keyword_points + length_points
      boosted == IF Len(text) > 200 /\ num_files >= 2
                 THEN Min({Thirtieths(25), score + Thirtieths(3)})
                 ELSE score
  IN IF text = "" THEN 0 ELSE round1(Min({Thirtieths(25), boosted}))

(* the arguments of the calls *)
ScoringTexts ==
  {"", "   ", "Short training note",
   "We increased revenue and reduced budget spend significantly to improve margins.",
   Repeat("x", 150), " " \o Repeat("x", 151) \o " ",
   Repeat("x", 200), "revenue budget " \o Repeat("x", 185),
   Repeat("x", 210) \o " training program to upskill staff",
   "revenue budget " \o Repeat("x", 196),
   Repeat("x", 300), Repeat("x", 301)}

ScoringFileCounts == 0..3

KeywordLists ==
  {<<>>, <<"training">>, <<"revenue", "budget">>, <<"Revenue", "budget", "margins">>,
   <<"x", "xx", "xxx", "xxxx", "xxxxx", "xxxxxx">>}

InitScoring ==
  /\ Start
  /\ faults = 0
  /\ form = NoForm
  /\ call \in {[NoCall EXCEPT !.action_text = t, !.num_files = n, !.keywords = k] :
                 t \in ScoringTexts, n \in ScoringFileCounts, k \in KeywordLists}

CallScorePerspective ==
  /\ call.fn = ""
  /\ call' = [call EXCEPT !.fn = "score_perspective",
                !.result = Some(score_perspective(call.action_text, call.num_files,
                                                  call.keywords))]
  /\ UNCHANGED <<clock, nTokens, faults, sheet, headers, csv, session, pc, loc, form>>

(* _evaluate_perspective returns points; the call record keeps them in tenths too *)
CallEvaluatePerspective ==
  /\ call.fn = ""
  /\ call' = [call EXCEPT !.fn = "_evaluate_perspective",
                !.result = Some(10 * evaluate_perspective(call.action_text, call.num_files))]
  /\ UNCHANGED <<clock, nTokens, faults, sheet, headers, csv, session, pc, loc, form>>

NextScoring == CallScorePerspective \/ CallEvaluatePerspective

(* one call of a scoring function on any text, attachment count and keyword list *)
SpecScoring == InitScoring /\ [][NextScoring]_vars

Returned == call.result # None

(* C22. A call of either scoring function whose action text is empty or consists only
   of whitespace returns 0, whatever the number of attachments. *)
C22_BlankTextScoresZero ==
  (Returned /\ strip(call.action_text) = "") => call.result[1] = 0

(* C23. Every call of a scoring function returns a value from 0 to 25 (0 to 250
   tenths); _evaluate_perspective returns exactly 10 points for a text that is not
   empty once stripped, plus 10 when the stripped text is longer than 150 characters,
   plus 5 for two or more attachments. *)
C23_ScoreRangeAndPolicy ==
  Returned =>
    /\ call.result[1] \in 0..250
    /\ call.fn = "_evaluate_perspective" =>
         call.result[1] =
           10 * ((IF strip(call.action_text) # "" THEN 10 ELSE 0)
                 + (IF Len(strip(call.action_text)) > 150 THEN 10 ELSE 0)
                 + (IF call.num_files >= 2 THEN 5 ELSE 0))

C23_Witness ==
  /\ call.fn = "_evaluate_perspective" /\ call.action_text = Repeat("x", 150)
  /\ call.num_files = 3 /\ call.result = Some(150)

(* C24. score_perspective never returns less when more keywords match (same text,
   same attachments), nor when the text is longer (same matched keywords, same
   attachments). *)
C24_ScoreMonotone ==
  (Returned /\ call.fn = "score_perspective") =>
    /\ \A k \in KeywordLists :
         matches(call.action_text, k) >= matches(call.action_text, call.keywords)
           => score_perspective(call.action_text, call.num_files, k) >= call.result[1]
    /\ \A t \in ScoringTexts :
         (/\ Len(t) >= Len(call.action_text)
          /\ matches(t, call.keywords) = matches(call.action_text, call.keywords))
           => score_perspective(t, call.num_files, call.keywords) >= call.result[1]

C24_Witness ==
  /\ call.fn = "score_perspective" /\ call.action_text = Repeat("x", 200)
  /\ call.num_files = 2 /\ call.keywords = <<"x", "xx", "xxx", "xxxx", "xxxxx", "xxxxxx">>
  /\ call.result = Some(217)

(* the lengths a text is truncated to *)
TruncatedLengths == {0, 1, 15, 100, 200}

(* C25. A call of score_perspective with a text longer than 200 characters and two or
   more attachments returns at least what the text truncated to 200 characters or
   fewer scores without attachments under the same keyword list. *)
C25_ExtraMile ==
  (Returned /\ call.fn = "score_perspective" /\ Len(call.action_text) > 200
     /\ call.num_files >= 2) =>
    \A n \in TruncatedLengths :
      score_perspective(SubSeq(call.action_text, 1, n), 0, call.keywords) <= call.result[1]

C25_Witness ==
  /\ call.fn = "score_perspective" /\ call.action_text = "revenue budget " \o Repeat("x", 196)
  /\ call.num_files = 2 /\ call.keywords = <<"revenue", "budget">>
  /\ call.result = Some(160)

(* ================================================= calls of the functions *)
(* The lock functions and update_evaluator_vote take the record key (name, timestamp)
   and the token from their caller, and the Final Results tab takes the frame of
   read_records(). Here they are called one at a time with keys of the caller's
   choosing: no timestamp, the timestamp of a record, or one that no record has. *)
KeyTimestamps == {None, isoformat(1), isoformat(MaxSubmissions + 1)}

(* keyword arguments of update_evaluator_vote: those of the three submit buttons *)
CallArgs ==
  {[NoArgs EXCEPT !.stage1_rec = Some(c), !.stage1_comment = Some(""),
                  !.current_status = Some(IF c = "Recommend for Finals"
                                          THEN "Stage 1 Recommended"
                                          ELSE "Stage 1 Rejected")] : c \in Stage1Choices}
  \cup {[NoArgs EXCEPT !.committee_vote = Some(v), !.evaluator_name = Some("e1"),
                       !.comment = Some(""),
                       !.current_status = Some("Stage 2 In Progress")] : v \in FinalVoteChoices}
  \cup {[NoArgs EXCEPT !.vote = Some("Winner"), !.comment = Some("")]}

InitCalls == Start /\ faults = 0 /\ form = NoForm /\ call = NoCall

(* the caller of the functions *)
Callers == {"e1"}

(* committee votes cast so far, over all records *)
RECURSIVE CountEntries(_)
CountEntries(records) ==
  IF records = <<>> THEN 0
  ELSE Cardinality({k \in 1..Len(Head(records).CommitteeVotes) :
                      Head(records).CommitteeVotes[k] = ":"})
       + CountEntries(Tail(records))

MaxVotes == 2

(* locks the caller takes *)
MaxLocks == 1

(* no call is under way, and the tab has not been looked at yet *)
Quiet == call = NoCall /\ \A e \in Evaluators : Ready(e)

(* acquire_lock(name, timestamp): the caller keeps the token it is returned *)
CallAcquire(e) ==
  /\ Quiet
  /\ nTokens < MaxLocks
  /\ \E name \in CandidateNames, timestamp \in KeyTimestamps :
       loc' = [loc EXCEPT ![e] = [NoLoc EXCEPT !.button = "acquire", !.name = name,
                                               !.timestamp = timestamp]]
  /\ pc' = [pc EXCEPT ![e] = "acq_open"]
  /\ UNCHANGED <<clock, nTokens, faults, sheet, headers, csv, session, form, call>>

(* release_lock(name, timestamp, token) with the token the caller holds *)
CallRelease(e) ==
  /\ Quiet
  /\ \E name \in CandidateNames, timestamp \in KeyTimestamps :
       /\ session[e][name].lock_token # ""
       /\ loc' = [loc EXCEPT ![e] = [NoLoc EXCEPT !.button = "release", !.name = name,
                                       !.timestamp = timestamp,
                                       !.lock_token = session[e][name].lock_token]]
  /\ pc' = [pc EXCEPT ![e] = "rel_open"]
  /\ UNCHANGED <<clock, nTokens, faults, sheet, headers, csv, session, form, call>>

(* update_evaluator_vote(name, timestamp, ..., lock_token=token) with the token the
   caller holds, None when it holds none *)
CallUpdate(e) ==
  /\ Quiet
  /\ \E name \in CandidateNames, timestamp \in KeyTimestamps, args \in CallArgs :
       /\ args.committee_vote # None
            => CountEntries(sheet) + CountEntries(csv.rows) < MaxVotes
       /\ StartUpdate(e, "update", name, timestamp, args)
  /\ UNCHANGED <<clock, nTokens, faults, sheet, headers, csv, session, form, call>>

(* ===================================================== the Final Results tab *)
(* The tab is rendered from df = read_records(), and only a frame read from the CSV
   gets as far as the tab (workspace_renders). Weights are kept in tenths (Winner
   is 10) and ranks in tenths of a point (92.0 is 920). *)

(* Series.fillna("") *)
fillna(x) == IF x = None THEN "" ELSE x[1]

(* variant: the match is case-sensitive *)
recommended_case_sensitive(v) == Contains(fillna(read_csv_text(v)), "recommend")

(* df_view["Stage 1 Recommendation"].fillna("").str.lower().str.contains("recommend")
   for the cell v of the file *)
recommended(v) == Contains(lower(fillna(read_csv_text(v))), "recommend")

vote_to_weight(v) ==
  LET t == lower(strip(v))
  IN IF Contains(t, "winner") THEN 10
     ELSE IF Contains(t, "runner") THEN 7
     ELSE IF Contains(t, "shortlist") THEN 5
     ELSE 0

(* committee.split(";") on the lexemes of the string *)
RECURSIVE split_parts(_)
split_parts(lex) ==
  IF \E k \in 1..Len(lex) : lex[k] = ";"
  THEN LET k == Min({j \in 1..Len(lex) : lex[j] = ";"})
       IN <<SubSeq(lex, 1, k - 1)>> \o split_parts(SubSeq(lex, k + 1, Len(lex)))
  ELSE <<lex>>

RECURSIVE join(_)
join(lex) == IF lex = <<>> THEN "" ELSE Head(lex) \o join(Tail(lex))

(* "_, v = part.split(":", 1)" when the part has a colon, else "v = part" *)
vote_of(part) ==
  IF \E k \in 1..Len(part) : part[k] = ":"
  THEN join(SubSeq(part, Min({j \in 1..Len(part) : part[j] = ":"}) + 1, Len(part)))
  ELSE join(part)

(* "for part in committee.split(";"): ... weights.append(vote_to_weight(v))" *)
committee_weights(committee) ==
  [k \in 1..Len(split_parts(committee)) |->
     vote_to_weight(vote_of(split_parts(committee)[k]))]

(* weights: one per part of committee = str(r.get("Committee Votes", "") or ""), and
   when that string is empty the weight of the Evaluator Vote, if there is one *)
weights(c, row) ==
  LET committee == csv_existing_votes(row.CommitteeVotes)
      legacy == csv_str(c, "Evaluator Vote", row.EvaluatorVote)
  IN IF committee # <<>>
     THEN committee_weights(committee)
     ELSE IF legacy # "" THEN <<vote_to_weight(legacy)>> ELSE <<>>

RECURSIVE SumSeq(_)
SumSeq(w) == IF w = <<>> THEN 0 ELSE Head(w) + SumSeq(Tail(w))

(* round(sys_score * 0.4 + (avg_w * 100) * 0.6, 1) with avg_w = sum(weights) /
   len(weights), 0.0 for no weights: in tenths, for weights in tenths *)
final_rank(sys_score, w) ==
  4 * sys_score
    + (IF w = <<>> THEN 0 ELSE (2 * 60 * SumSeq(w) + Len(w)) \div (2 * Len(w)))

(* the entry of rows for the record at index i of the frame *)
result_row(c, i) ==
  [idx |-> i, Name |-> c.rows[i].Name, TotalScore |-> c.rows[i].TotalScore,
   weights |-> weights(c, c.rows[i]),
   FinalRank |-> final_rank(c.rows[i].TotalScore, weights(c, c.rows[i]))]

(* pd.DataFrame(rows).sort_values("Final Rank", ascending=False): the rows of recs,
   highest Final Rank first (which of two equal ranks comes first is up to the sort) *)
sort_values(c, recs) ==
  {result_df \in [1..Cardinality(recs) -> {result_row(c, i) : i \in recs}] :
     /\ \A i \in recs : \E k \in 1..Cardinality(recs) : result_df[k].idx = i
     /\ \A k \in 1..(Cardinality(recs) - 1) :
          result_df[k].FinalRank >= result_df[k + 1].FinalRank}

(* the tab is rendered: result is None when an st.info line is shown, else result_df,
   whose first row is shown as the Top Candidate *)
FinalResults ==
  /\ Quiet
  /\ workspace_renders(read_records(FALSE))
  /\ LET recs == {i \in 1..Len(csv.rows) : recommended(csv.rows[i].Stage1Recommendation)}
     IN \E result_df \in sort_values(csv, recs) :
          call' = [fn |-> "final_results", df |-> csv,
                   result |-> IF recs = {} THEN None ELSE Some(result_df)]
  /\ UNCHANGED <<clock, nTokens, faults, sheet, headers, csv, session, pc, loc, form>>

NextCalls ==
  \/ Quiet /\ Submit
  \/ FinalResults
  \/ \E e \in Callers : CallAcquire(e)
  \/ \E e \in Callers : CallRelease(e)
  \/ \E e \in Callers : CallUpdate(e)
  \/ \E e \in Evaluators : AcqOpen(e)
  \/ \E e \in Evaluators : AcqHdr(e)
  \/ \E e \in Evaluators : AcqReadToken(e)
  \/ \E e \in Evaluators : AcqReadExpiry(e)
  \/ \E e \in Evaluators : AcqWriteToken(e)
  \/ \E e \in Evaluators : AcqWriteExpiry(e)
  \/ \E e \in Evaluators : AcqWriteHolder(e)
  \/ \E e \in Evaluators : AcquireFallback(e)
  \/ \E e \in Evaluators : RelOpen(e)
  \/ \E e \in Evaluators : RelRead(e)
  \/ \E e \in Evaluators : RelClearToken(e)
  \/ \E e \in Evaluators : RelClearExpiry(e)
  \/ \E e \in Evaluators : ReleaseFallback(e)
  \/ \E e \in Evaluators : UpdOpen(e)
  \/ \E e \in Evaluators : UpdCheck(e)
  \/ \E e \in Evaluators : UpdStep(e)
  \/ \E e \in Evaluators : UpdateFallback(e)

(* the functions are called one after the other, and no gspread call raises unless
   the sheet has no row for the name *)
SpecCalls == InitCalls /\ [][NextCalls]_vars

(* the tab has listed candidates *)
Listed == call.fn = "final_results" /\ call.result # None
shown == call.result[1]
ListedRows == {shown[k].idx : k \in 1..Len(shown)}

(* the weight the specification gives a vote *)
ClaimedWeight(v) ==
  CASE v = "Winner" -> 10 [] v = "Runner-up" -> 7 [] v = "Shortlist" -> 5 [] OTHER -> 0

(* the weights of the committee-vote entries "name:vote" of a stored field *)
RECURSIVE EntryWeights(_)
EntryWeights(lex) ==
  IF lex = <<>> THEN <<>>
  ELSE IF Head(lex) = ":" THEN <<ClaimedWeight(lex[2])>> \o EntryWeights(Tail(lex))
  ELSE EntryWeights(Tail(lex))

(* the stored record of a listed row *)
RecordOf(r) == call.df.rows[r.idx]

(* total_score * 0.4 + committee_weight * 100 * 0.6, the committee weight being the
   mean weight of the record's committee-vote entries *)
ClaimedRank(row) == final_rank(row.TotalScore, EntryWeights(row.CommitteeVotes))

(* C26. The Final Results list is in the order of final_rank = total_score * 0.4 +
   committee_weight * 100 * 0.6, highest first, the committee weight being the mean
   weight of the candidate's committee-vote entries (a single Winner vote gives
   total_score * 0.4 + 60), and the Top Candidate has the greatest final_rank. *)
C26_RankedByFinalRank ==
  Listed =>
    /\ \A k \in 1..Len(shown) : shown[k].FinalRank = ClaimedRank(RecordOf(shown[k]))
    /\ \A k \in 1..(Len(shown) - 1) :
         ClaimedRank(RecordOf(shown[k])) >= ClaimedRank(RecordOf(shown[k + 1]))
    /\ \A k \in 1..Len(shown) :
         ClaimedRank(RecordOf(shown[1])) >= ClaimedRank(RecordOf(shown[k]))

(* C27. The committee weight the Final Results tab uses for a listed candidate is the
   mean, over the candidate's committee-vote entries, of Winner = 1.0, Runner-up = 0.7,
   Shortlist = 0.5 and 0.0 for anything else, and 0.0 when there is no entry. *)
C27_CommitteeWeightIsMean ==
  Listed =>
    \A k \in 1..Len(shown) :
      LET w == shown[k].weights
          entries == EntryWeights(RecordOf(shown[k]).CommitteeVotes)
      IN IF entries = <<>>
         THEN SumSeq(w) = 0
         ELSE w # <<>> /\ SumSeq(w) * Len(entries) = SumSeq(entries) * Len(w)

(* a Stage 1 Recommendation that contains "recommend", whatever the case *)
ContainsRecommend(v) ==
  \E i \in 1..(Len(v) - 8) : lower(SubSeq(v, i, i + 8)) = "recommend"

(* C28. A record of the frame is listed in the Final Results exactly when its Stage 1
   Recommendation contains "recommend" in any case: "Recommend for Finals" is listed,
   "Reject" and the empty recommendation never are, whatever votes the record has. *)
C28_ListedIffRecommended ==
  call.fn = "final_results" =>
    \A i \in 1..Len(call.df.rows) :
      LET v == call.df.rows[i].Stage1Recommendation
          listed == call.result # None /\ i \in ListedRows
      IN /\ listed <=> ContainsRecommend(v)
         /\ v = "Recommend for Finals" => listed
         /\ v \in {"Reject", ""} => ~listed

C28_Witness ==
  /\ Listed
  /\ \E i, j \in 1..Len(call.df.rows) :
       /\ call.df.rows[i].Stage1Recommendation = "Recommend for Finals" /\ i \in ListedRows
       /\ call.df.rows[j].Stage1Recommendation = "Reject" /\ j \notin ListedRows
       /\ EntryWeights(call.df.rows[j].CommitteeVotes) # <<>>
       /\ call.df.rows[j].EvaluatorVote = "Winner"

(* -------------------------------------------------- the stages of a record *)
Stage1Statuses == {"Stage 1 Recommended", "Stage 1 Rejected"}
Stage2Statuses == {"Stage 2 In Progress"}

(* a step from the stored record old to new keeps a recommendation that was made and
   does not take the status back to the first stage *)
KeepsStage(old, new) ==
  /\ old.Stage1Recommendation # "" => new.Stage1Recommendation = old.Stage1Recommendation
  /\ old.CurrentStatus \in Stage2Statuses => new.CurrentStatus \notin Stage1Statuses

(* C29. Once a record's Stage 1 Recommendation is not empty no step changes it, also
   not the Stage 1 submit of a second evaluator whose page was run before the first
   evaluator's recommendation was stored, and no step takes a record's status from a
   Stage 2 status back to a Stage 1 status. *)
C29_RecommendationIsFinal ==
  [][/\ \A i \in 1..Len(sheet) : KeepsStage(sheet[i], sheet'[i])
     /\ \A i \in 1..Len(csv.rows) : KeepsStage(csv.rows[i], csv'.rows[i])]_vars

(* ------------------------------------------------- the record a key names *)
(* the cells the lock functions and update_evaluator_vote write *)
EvaluatorFields(row) ==
  <<row.LockToken, row.LockExpiry, row.LockHolder, row.EvaluatorVote,
    row.EvaluatorComment, row.Stage1Recommendation, row.Stage1Comment,
    row.CommitteeVotes, row.CurrentStatus>>

(* the records of a store that a step has written *)
Written(old, new) ==
  {i \in 1..Len(old) : EvaluatorFields(new[i]) # EvaluatorFields(old[i])}

(* the record the specification's find(name, timestamp) names: the one with that name
   and timestamp when there is one, else the most recent one with the name (0: none) *)
ClaimedRecord(records, name, timestamp) ==
  LET exact == {i \in 1..Len(records) :
                  records[i].Name = name /\ records[i].Timestamp = timestamp}
      named == {i \in 1..Len(records) : records[i].Name = name}
  IN IF exact # {} THEN CHOOSE i \in exact : TRUE
     ELSE IF named # {}
     THEN CHOOSE i \in named :
            \A j \in named : records[j].Timestamp[1] <= records[i].Timestamp[1]
     ELSE 0

(* C30. Every record that a call of acquire_lock, release_lock or update_evaluator_vote
   for the key (name, timestamp) writes, in the sheet or in the CSV, is the record with
   that name and timestamp when there is one and else the most recent record with the
   name: the three functions lock, unlock and update the same record for a key. *)
C30_SameRecordForKey ==
  [][\A e \in Evaluators :
       ~Ready(e) =>
         /\ Written(sheet, sheet')
              \subseteq {ClaimedRecord(sheet, loc[e].name, loc[e].timestamp)}
         /\ Written(csv.rows, csv'.rows)
              \subseteq {ClaimedRecord(csv.rows, loc[e].name, loc[e].timestamp)}]_vars

(* ------------------------------------------- the fallback file and the list *)
(* the record is a row of the frame df *)
Returns(df, record) ==
  \E i \in 1..Len(df.rows) :
    /\ df.rows[i].Name = record.Name
    /\ df.rows[i].Timestamp = record.Timestamp

(* C31. Every submission that log_submission wrote to the local CSV, the sheet having
   been unavailable, is a row of what read_records returns once the sheet is
   available again. *)
C31_CsvRecordsReturned ==
  \A i \in 1..Len(csv.rows) : Returns(read_records(TRUE), csv.rows[i])

(* ------------------------------------------------- the order of the pipeline *)
(* C32. A record is written only by a run that has uploaded the evidence and then
   sent the notification email: there are never more records than emails sent, every
   step that writes a record is taken after the upload and the send of its run, and a
   run whose send raised writes nothing. *)
C32_RecordAfterEmail ==
  [][/\ nSubmitted' <= form'.emails
     /\ nSubmitted' > nSubmitted
          => form.pc = "log" /\ form.uploaded_files_meta # None /\ form.emails > nSubmitted
     /\ form.pc = "email" /\ form'.pc = "shown" => sheet' = sheet /\ csv' = csv]_vars

C32_Witness ==
  /\ nSubmitted = 1
  /\ form.emails = 1
  /\ form.runs = 2
  /\ form.pc = "shown"
  /\ form.uploaded_files_meta # None
  /\ SubmissionError \in form.messages

(* ======================================================== _retry_api_call *)
(* A call _retry_api_call(callable_fn, attempts): outcomes[k] is what the k-th call of
   callable_fn does, return ("ok") or raise the named exception; calls counts the
   calls of callable_fn made so far and sleeps those of time.sleep; result is None
   while the loop runs, then what the function returned or raised. *)
MaxAttempts == 3

Exceptions == {"ConnectionError", "HttpError 503", "HttpError 404", "ValueError"}

(* variant: every exception is retried *)
retry_any(e, attempt, attempts) == attempt < attempts

(* "if _is_network_error(e) and attempt < attempts": sleep and go round again *)
retry(e, attempt, attempts) == is_network_error(e) /\ attempt < attempts

InitRetry ==
  /\ Start
  /\ faults = 0
  /\ form = NoForm
  /\ call \in {[fn |-> "_retry_api_call", attempts |-> n, outcomes |-> o, calls |-> 0,
                sleeps |-> 0, backoff |-> 1, last_exc |-> None, result |-> None] :
                 n \in 0..MaxAttempts, o \in [1..MaxAttempts -> {"ok"} \cup Exceptions]}

(* one round of "for attempt in range(1, attempts + 1)" *)
RetryAttempt ==
  /\ call.fn = "_retry_api_call"
  /\ call.result = None
  /\ call.calls < call.attempts
  /\ LET attempt == call.calls + 1
         e == call.outcomes[attempt]
     IN call' =
          IF e = "ok"
          THEN [call EXCEPT !.calls = attempt,
                            !.result = Some([kind |-> "return", value |-> attempt])]
          ELSE IF retry(e, attempt, call.attempts)
          THEN [call EXCEPT !.calls = attempt, !.last_exc = Some(e),
                            !.sleeps = call.sleeps + 1, !.backoff = call.backoff * 2]
          ELSE [call EXCEPT !.calls = attempt, !.last_exc = Some(e),
                            !.result = Some([kind |-> "raise", value |-> e])]
  /\ UNCHANGED <<clock, nTokens, faults, sheet, headers, csv, session, pc, loc, form>>

(* the loop has ended without a return or a raise, which it does when attempts is not
   positive: "raise last_exc" with last_exc None raises TypeError *)
RetryLoopEnd ==
  /\ call.fn = "_retry_api_call"
  /\ call.result = None
  /\ call.calls >= call.attempts
  /\ call' = [call EXCEPT !.result =
                Some([kind |-> "raise",
                      value |-> IF call.last_exc = None THEN "TypeError"
                                ELSE call.last_exc[1]])]
  /\ UNCHANGED <<clock, nTokens, faults, sheet, headers, csv, session, pc, loc, form>>

NextRetry == RetryAttempt \/ RetryLoopEnd

(* the function is run to its end *)
SpecRetry == InitRetry /\ [][NextRetry]_vars /\ WF_vars(NextRetry)

(* the exceptions the function is meant to retry *)
NetworkErrors == {"ConnectionError", "HttpError 503"}

(* what has happened so far in a call of _retry_api_call is as claimed *)
RetryAsClaimed ==
  /\ call.calls <= call.attempts
  /\ call.result # None /\ call.calls > 0 =>
       LET r == call.result[1]
           last == call.outcomes[call.calls]
       IN /\ \A k \in 1..(call.calls - 1) : call.outcomes[k] \in NetworkErrors
          /\ r.kind = "return" <=> last = "ok"
          /\ r.kind = "return" => r.value = call.calls
          /\ r.kind = "raise" => r.value = last
          /\ last \in NetworkErrors => call.calls = call.attempts

(* C33. _retry_api_call calls the function at most attempts times and ends: it returns
   the result of the first call that succeeds, raises an error that is not a network
   error at once, and raises the last network error after exactly attempts failed
   calls. *)
C33_RetryBoundedAndEnds == [](RetryAsClaimed) /\ <>(call.result # None)

C33_Witness ==
  /\ call.fn = "_retry_api_call"
  /\ call.attempts = 3
  /\ call.calls = 3
  /\ call.sleeps = 2
  /\ call.outcomes[1] = "ConnectionError"
  /\ call.result = Some([kind |-> "raise", value |-> "HttpError 503"])

(* ------------------------------------------------------ acquire_lock writes *)
(* e's acquire_lock call is in its except branch in this step *)
AcquireFallsBack(e) ==
  /\ AcquireReturns(e)
  /\ (faults' # faults \/ (pc[e] = "acq_open" /\ ~OnSheet(e)))

(* the CSV row the fallback of e's acquire_lock call looks at carries a lock *)
CsvRowLocked(e) ==
  /\ csv.exists
  /\ csv_mask(csv.rows, loc[e].name, loc[e].timestamp) # {}
  /\ LET row == csv.rows[Min(csv_mask(csv.rows, loc[e].name, loc[e].timestamp))]
     IN is_locked(csv_str(csv, "Lock Token", row.LockToken),
                  csv_expiry_str(csv, row.LockExpiry), clock)

(* e's acquire_lock call has already written its own token to the sheet row *)
HasWrittenToken(e) == pc[e] \in {"acq_write_expiry", "acq_write_holder"}

(* row carries what acquire_lock returns to e in this step *)
StoresReturned(e, row) ==
  LockFields(row) = <<session'[e][loc[e].name].lock_token,
                      session'[e][loc[e].name].lock_expiry, "Evaluator">>

(* C34. An acquire_lock that returns (None, None) because the record is locked has
   written no Lock Token, Lock Expiry or Lock Holder of any record, neither in the
   step that refuses nor earlier in the call; an acquire_lock that returns a token
   leaves the token, the expiry now + timeout_seconds and the holder on the record. *)
C34_AcquireWrites ==
  [][\A e \in Evaluators :
       /\ (StepsFrom(e, "acq_read_expiry") /\ pc'[e] = "acquire_failed")
           => UNCHANGED AllLockFields
       /\ (AcquireFallsBack(e) /\ CsvRowLocked(e))
           => (/\ pc'[e] = "acquire_failed"
               /\ UNCHANGED AllLockFields
               /\ ~HasWrittenToken(e))
       /\ (StepsFrom(e, "acq_read_expiry") /\ pc'[e] # "acquire_failed")
           => loc'[e].expiry_iso = isoformat(clock + timeout_seconds)
       /\ (AcquireReturns(e) /\ pc'[e] = "lock_acquired")
           => IF AcquireFallsBack(e)
              THEN /\ StoresReturned(e, csv'.rows[Min(csv_mask(csv.rows, loc[e].name,
                                                               loc[e].timestamp))])
                   /\ session'[e][loc[e].name].lock_expiry
                        = isoformat(clock + timeout_seconds)
              ELSE StoresReturned(e, sheet'[loc[e].row_idx])]_vars

(* no acquire_lock, release_lock or update_evaluator_vote call is in progress *)
NoCallInProgress == \A e \in Evaluators : Ready(e)

(* the lock a record stores can expire: its Lock Expiry parses *)
CanExpire(row) == row.LockToken # "" => Parsable(row.LockExpiry)

(* C35. Whenever no call is in progress, every record that stores a non-empty Lock
   Token stores a Lock Expiry that parses, also after a gspread write of
   acquire_lock raised between the token write and the expiry write; so every
   stored lock expires and the record can be acquired again. *)
C35_NoPermanentLock ==
  NoCallInProgress
    => /\ \A i \in 1..Len(sheet) : CanExpire(sheet[i])
       /\ \A i \in 1..Len(csv.rows) : CanExpire(csv.rows[i])

(* ------------------------------------------------------- locks and backends *)
(* h's session holds, unexpired, the token that the CSV row of h's record key stores:
   the lock h acquired through the CSV fallback *)
HoldsCsvRow(h) ==
  /\ JustAcquired(h)
  /\ SessionUnexpired(h, loc[h].name)
  /\ csv_mask(csv.rows, loc[h].name, loc[h].timestamp) # {}
  /\ csv.rows[Min(csv_mask(csv.rows, loc[h].name, loc[h].timestamp))].LockToken
       = session[h][loc[h].name].lock_token

(* e and h each hold an unexpired token that acquire_lock returned for one record key *)
BothHold(e, h) ==
  /\ JustAcquired(e) /\ JustAcquired(h)
  /\ SameKey(e, h)
  /\ SessionUnexpired(e, loc[e].name)
  /\ SessionUnexpired(h, loc[h].name)

(* C36. Locks exclude each other across backends: while an evaluator holds an
   unexpired lock acquired through the CSV fallback, an acquire_lock of another
   evaluator on the same record key that goes through the sheet returns
   (None, None); and no step leads to a state in which two evaluators each hold an
   unexpired token returned by acquire_lock for the same record key. *)
C36_ExclusionAcrossBackends ==
  [][/\ \A e \in Evaluators : \A h \in Evaluators \ {e} :
          (/\ AcquireReturns(e)
           /\ ~AcquireFallsBack(e)
           /\ HoldsCsvRow(h)
           /\ SameKey(e, h))
          => pc'[e] = "acquire_failed"
     /\ \A e \in Evaluators : \A h \in Evaluators \ {e} : ~BothHold(e, h)']_vars

(* ------------------------------------------- the CSV fallback and its lock *)
(* update_evaluator_vote(name, timestamp, stage1_rec=..., lock_token=token) called by
   either evaluator with the token it holds, None when it holds none *)
CallUpdateStage1(e) ==
  /\ Quiet
  /\ \E name \in CandidateNames, timestamp \in KeyTimestamps :
       \E args \in {a \in CallArgs : a.stage1_rec # None} :
         StartUpdate(e, "update", name, timestamp, args)
  /\ UNCHANGED <<clock, nTokens, faults, sheet, headers, csv, session, form, call>>

NextLocks ==
  \/ Quiet /\ Submit
  \/ \E e \in Evaluators : CallAcquire(e)
  \/ \E e \in Evaluators : CallUpdateStage1(e)
  \/ \E e \in Evaluators : AcqOpen(e)
  \/ \E e \in Evaluators : AcqHdr(e)
  \/ \E e \in Evaluators : AcqReadToken(e)
  \/ \E e \in Evaluators : AcqReadExpiry(e)
  \/ \E e \in Evaluators : AcqWriteToken(e)
  \/ \E e \in Evaluators : AcqWriteExpiry(e)
  \/ \E e \in Evaluators : AcqWriteHolder(e)
  \/ \E e \in Evaluators : AcquireFallback(e)
  \/ \E e \in Evaluators : UpdOpen(e)
  \/ \E e \in Evaluators : UpdCheck(e)
  \/ \E e \in Evaluators : UpdStep(e)
  \/ \E e \in Evaluators : UpdateFallback(e)

(* acquire_lock and update_evaluator_vote called one after the other by two
   evaluators, with any of the key timestamps *)
SpecLocks == InitCalls /\ [][NextLocks]_vars

(* e's update_evaluator_vote call returns from its CSV fallback in this step *)
UpdateLeavesByCsv(e) ==
  /\ pc[e] \in UpdRemotePcs
  /\ pc'[e] \notin UpdRemotePcs
  /\ (faults' # faults
        \/ (pc[e] = "upd_open" /\ ~OnSheet(e))
        \/ (pc[e] = "upd_check"
              /\ lock_refuses(sheet[loc[e].row_idx].LockToken, loc[e].lock_token)))

(* row stores a lock that is not the caller's: a token, and not the supplied one *)
LockedByOther(row, lock_token) == row.LockToken # "" /\ row.LockToken # lock_token

(* C37. The CSV fallback of update_evaluator_vote modifies no row whose stored Lock
   Token is non-empty and differs from the supplied token, also when the supplied
   timestamp matches no row and the last row with the name is taken. *)
C37_CsvUpdateRespectsLock ==
  [][\A e \in Evaluators : \A i \in 1..Len(csv.rows) :
       (UpdateLeavesByCsv(e) /\ LockedByOther(csv.rows[i], loc[e].lock_token))
       => csv'.rows[i] = csv.rows[i]]_vars

(* ------------------------------------------- committee votes and their names *)
(* what an evaluator may type into "Your Name" *)
DisplayNames == {"Ann", "Ann;Lee", "Ann:Winner", "Winner"}

(* the Final Vote options that can be submitted *)
CommitteeChoices == {"Winner", "Runner-up", "Reject"}

(* One record's Committee Votes cell: empty at first, then appended to by the
   committee-vote submissions, on the sheet (path "sheet") or in the CSV (path
   "csv"); submitted lists the submissions that succeeded. *)
InitVotes ==
  /\ Start /\ faults = 0 /\ form = NoForm
  /\ call \in [fn : {"committee_votes"}, path : {"sheet", "csv"}, cell : {<<>>},
               submitted : {<<>>}, result : {None}]

(* existing = worksheet.cell(...).value or ""; in the CSV str(df.at[...] or "") *)
existing_votes(path, cell) == IF path = "csv" THEN csv_existing_votes(cell) ELSE cell

(* update_evaluator_vote(..., committee_vote=final_vote, evaluator_name=name) *)
CastVote ==
  /\ call.fn = "committee_votes"
  /\ call.result = None
  /\ Len(call.submitted) < MaxVotes
  /\ \E evaluator_name \in DisplayNames, final_vote \in CommitteeChoices :
       call' = [call EXCEPT
                  !.cell = append_vote(existing_votes(call.path, call.cell),
                                       Some(evaluator_name), final_vote),
                  !.submitted = Append(call.submitted,
                                       [name |-> evaluator_name, vote |-> final_vote])]
  /\ UNCHANGED <<clock, nTokens, faults, sheet, headers, csv, session, pc, loc, form>>

(* the weights the Final Results tab collects for the record *)
RankWeights ==
  /\ call.fn = "committee_votes"
  /\ call.result = None
  /\ call' = [call EXCEPT !.result =
                Some(IF existing_votes(call.path, call.cell) # <<>>
                     THEN committee_weights(existing_votes(call.path, call.cell))
                     ELSE <<>>)]
  /\ UNCHANGED <<clock, nTokens, faults, sheet, headers, csv, session, pc, loc, form>>

NextVotes == CastVote \/ RankWeights

SpecVotes == InitVotes /\ [][NextVotes]_vars

(* C38. The weights the ranking averages for a record are as many as the successful
   committee-vote submissions on it, and the weight of each is the weight of the
   submitted vote, whatever display name it was submitted under. *)
C38_OneWeightPerVote ==
  (call.fn = "committee_votes" /\ call.result # None)
    => /\ Len(call.result[1]) = Len(call.submitted)
       /\ \A k \in 1..Len(call.submitted) :
            call.result[1][k] = vote_to_weight(call.submitted[k].vote)
====
